---- MODULE Spec2Model ----
(***************************************************************************)
(* A model of Pris, a language for designing slides: the lexer, the        *)
(* recursive-descent parser, the dimensional value arithmetic, the frame   *)
(* composition operators and the statement/expression interpreter.         *)
(*                                                                         *)
(* f64 values are modelled as exact rationals n/d extended with the IEEE   *)
(* non-finite values: d = 0 encodes +inf (n = 1), -inf (n = -1) and NaN    *)
(* (n = 0).  Rounding and signed zeros are not modelled.                   *)
(***************************************************************************)
EXTENDS Integers, Sequences, FiniteSets, TLC

VARIABLES
    call,              \* the function applied, its operands and its local variables
    ret,               \* its result
    lexer,             \* SpecLex: the Lexer struct (input, start, state, tokens)
    lex_result,        \* SpecLex: what Lexer::run returned
    parser,            \* SpecParse: the Parser struct (tokens, cursor)
    parse_result,      \* SpecParse: what the parse function returned
    statements,        \* SpecParse: the statements parse_document collected
    stmt_interpreter,  \* Spec: the top-level StmtInterpreter (frame, current_subframe)
    frames,            \* Spec: the frames main() collected from top-level blocks
    outcome,           \* Spec: the statement evaluated last and its result
    aborted,           \* Spec: TRUE once main() panicked with "Abort after error."
    canvas_size,       \* Spec: the canvas size main() looked up after the statements
    painted,           \* Spec: the frames handed to driver::render_frame so far
    printed            \* Spec: the errors printed with Error::print so far

vars == <<call, ret, lexer, lex_result, parser, parse_result, statements,
          stmt_interpreter, frames, outcome, aborted, canvas_size, painted, printed>>

opsVars == <<call, ret>>
lexVars == <<lexer, lex_result>>
parseVars == <<parser, parse_result, statements>>
evalVars == <<stmt_interpreter, frames, outcome, aborted, canvas_size, painted, printed>>

\* The value of a variable group in a specification that does not use it.
Idle == [status |-> "idle"]
Pending == [status |-> "pending"]

(***************************************************************************)
(* Bounds of the model.                                                    *)
(***************************************************************************)
\* Numbers drawn as operands are the integers -1 .. MaxNum.
MaxNum == 2
\* Dimensions drawn for operands are -1 .. MaxDim.
MaxDim == 2

(***************************************************************************)
(* f64 arithmetic on extended rationals.                                   *)
(***************************************************************************)
Abs(n) == IF n < 0 THEN -n ELSE n
Sign(n) == IF n < 0 THEN -1 ELSE IF n > 0 THEN 1 ELSE 0

RECURSIVE GCD(_, _)
GCD(a, b) == IF b = 0 THEN a ELSE GCD(b, a % b)

Rat(n, d) ==
    IF d = 0 THEN [n |-> Sign(n), d |-> 0]
    ELSE LET g == GCD(Abs(n), Abs(d))
         IN  [n |-> (Sign(d) * n) \div g, d |-> Abs(d) \div g]

R(n) == [n |-> n, d |-> 1]
Zero == R(0)
NaN == [n |-> 0, d |-> 0]
IsNaN(a) == a.d = 0 /\ a.n = 0
IsFinite(a) == a.d # 0

RatAdd(a, b) ==
    IF IsNaN(a) \/ IsNaN(b) THEN NaN
    ELSE IF a.d = 0 /\ b.d = 0 THEN (IF a.n = b.n THEN a ELSE NaN)
    ELSE IF a.d = 0 THEN a
    ELSE IF b.d = 0 THEN b
    ELSE Rat(a.n * b.d + b.n * a.d, a.d * b.d)

RatNeg(a) == [n |-> -a.n, d |-> a.d]
RatSub(a, b) == RatAdd(a, RatNeg(b))
RatMul(a, b) == Rat(a.n * b.n, a.d * b.d)

RatDiv(a, b) ==
    IF IsNaN(a) \/ IsNaN(b) THEN NaN
    ELSE IF a.d = 0 THEN (IF b.d = 0 THEN NaN
                          ELSE Rat(a.n * (IF b.n < 0 THEN -1 ELSE 1), 0))
    ELSE IF b.d = 0 THEN Zero
    ELSE IF b.n = 0 THEN Rat(a.n, 0)
    ELSE Rat(a.n * b.d * Sign(b.n), a.d * Abs(b.n))

\* a < b; every comparison with NaN is false.
RatLt(a, b) ==
    IF IsNaN(a) \/ IsNaN(b) THEN FALSE
    ELSE IF a.d = 0 /\ b.d = 0 THEN a.n < b.n
    ELSE IF a.d = 0 THEN a.n < 0
    ELSE IF b.d = 0 THEN b.n > 0
    ELSE a.n * b.d < b.n * a.d

RatGt(a, b) == RatLt(b, a)
RatLe(a, b) == ~IsNaN(a) /\ ~IsNaN(b) /\ ~RatLt(b, a)

\* f64::min and f64::max return the other operand when one is NaN.
RatMin(a, b) == IF IsNaN(a) THEN b ELSE IF IsNaN(b) THEN a
                ELSE IF RatLt(b, a) THEN b ELSE a
RatMax(a, b) == IF IsNaN(a) THEN b ELSE IF IsNaN(b) THEN a
                ELSE IF RatLt(a, b) THEN b ELSE a

(***************************************************************************)
(* elements.rs: Vec2 and the drawing elements.                             *)
(***************************************************************************)
Vec2(x, y) == [x |-> x, y |-> y]
Vec2Zero == Vec2(Zero, Zero)
Vec2Add(a, b) == Vec2(RatAdd(a.x, b.x), RatAdd(a.y, b.y))
Vec2Mul(a, s) == Vec2(RatMul(a.x, s), RatMul(a.y, s))

PlacedElement(position, element) == [position |-> position, element |-> element]

(***************************************************************************)
(* runtime.rs and types.rs: values, their types, results.                  *)
(***************************************************************************)
Num(x, d) == [type |-> "Num", x |-> x, dim |-> d]
Str(s) == [type |-> "Str", s |-> s]
Col(r, g, b) == [type |-> "Col", r |-> r, g |-> g, b |-> b]
Coord(x, y, d) == [type |-> "Coord", x |-> x, y |-> y, dim |-> d]
FrameVal(f) == [type |-> "Frame", frame |-> f]
FnExtrin(fn_def) == [type |-> "FnExtrin", fn_def |-> fn_def]
FnIntrin(name) == [type |-> "FnIntrin", name |-> name]

get_type(v) ==
    CASE v.type = "Num" -> [t |-> "Num", dim |-> v.dim]
      [] v.type = "Str" -> [t |-> "Str"]
      [] v.type = "Col" -> [t |-> "Color"]
      [] v.type = "Coord" -> [t |-> "Coord", dim |-> v.dim]
      [] v.type = "Frame" -> [t |-> "Frame"]
      [] v.type = "FnExtrin" -> [t |-> "Fn"]
      [] v.type = "FnIntrin" -> [t |-> "Fn"]

Ok(v) == [ok |-> TRUE, val |-> v]
Err(e) == [ok |-> FALSE, err |-> e]

\* error.rs: the constructors of Error.
ErrorOther(msg) == [kind |-> "Other", msg |-> msg]
ErrorArity(fn_name, expected, actual) ==
    [kind |-> "Arity", fn_name |-> fn_name, expected |-> expected, actual |-> actual]
ErrorBinopType(op_name, expected, actual_lhs, actual_rhs) ==
    [kind |-> "Type", expected |-> expected, actual |-> actual_lhs]
ErrorArgType(fn_name, expected, actual, arg_num) ==
    [kind |-> "Type", expected |-> expected, actual |-> actual, arg_num |-> arg_num]
ErrorVarType(var_name, expected, actual) ==
    [kind |-> "Type", expected |-> expected, actual |-> actual, var_name |-> var_name]

(***************************************************************************)
(* runtime.rs: BoundingBox, Subframe, Env, Frame.                          *)
(***************************************************************************)
BoundingBox(position, size) ==
    [x |-> position.x, y |-> position.y, width |-> size.x, height |-> size.y]

BoundingBoxEmpty == [x |-> Zero, y |-> Zero, width |-> Zero, height |-> Zero]

BoundingBoxSized(width, height) ==
    [x |-> Zero, y |-> Zero, width |-> width, height |-> height]

\* The union that is the other box.
BoundingBoxUnionReplaces(self, other) == other

BoundingBoxUnion(self, other) ==
    LET x0 == RatMin(self.x, other.x)
        y0 == RatMin(self.y, other.y)
        x1 == RatMax(RatAdd(self.x, self.width), RatAdd(other.x, other.width))
        y1 == RatMax(RatAdd(self.y, self.height), RatAdd(other.y, other.height))
    IN  [x |-> x0, y |-> y0, width |-> RatSub(x1, x0), height |-> RatSub(y1, y0)]

BoundingBoxOffset(self, offset) ==
    [x |-> RatAdd(self.x, offset.x), y |-> RatAdd(self.y, offset.y),
     width |-> self.width, height |-> self.height]

BoundingBoxScale(self, scale) ==
    [x |-> RatMul(self.x, scale), y |-> RatMul(self.y, scale),
     width |-> RatMul(self.width, scale), height |-> RatMul(self.height, scale)]

SubframeNew == [elements |-> <<>>]

SubframePlaceElement(sf, position, elem) ==
    [elements |-> Append(sf.elements, PlacedElement(position, elem))]

\* Env::put: insert or overwrite one binding.
EnvPut(env, ident, val) ==
    [n \in (DOMAIN env) \cup {ident} |-> IF n = ident THEN val ELSE env[n]]

\* Env::new: the default bindings.
EnvNew ==
    [n \in {"font_size", "font_family", "font_style", "fill_rectangle",
            "text_align", "line_height", "line_width", "canvas_size", "color",
            "fit", "glyph", "hyperlink", "image", "line", "str", "t"} |->
        CASE n = "font_size" -> Num(R(108), 1)
          [] n = "font_family" -> Str("sans")
          [] n = "font_style" -> Str("roman")
          [] n = "text_align" -> Str("left")
          [] n = "line_height" -> Num(R(128), 1)
          [] n = "line_width" -> Num(Rat(108, 10), 1)
          [] n = "canvas_size" -> Coord(R(1920), R(1080), 0)
          [] n = "color" -> Col(Zero, Zero, Zero)
          [] OTHER -> FnIntrin(n)]

FrameFromEnv(env) ==
    [env |-> env, bounding_box |-> BoundingBoxEmpty, anchor |-> Vec2Zero,
     subframes |-> <<>>]

FrameNew == FrameFromEnv(EnvNew)

FramePutInEnv(frame, ident, val) ==
    [frame EXCEPT !.env = EnvPut(frame.env, ident, val)]

FramePushSubframe(frame, subframe) ==
    [frame EXCEPT !.subframes = Append(frame.subframes, subframe)]

FramePlaceElementOnLastSubframe(frame, position, elem) ==
    LET f1 == IF Len(frame.subframes) = 0
              THEN FramePushSubframe(frame, SubframeNew) ELSE frame
        index == Len(f1.subframes)
    IN  [f1 EXCEPT !.subframes[index] =
            SubframePlaceElement(f1.subframes[index], position, elem)]

FrameSetAnchor(frame, a) == [frame EXCEPT !.anchor = a]

FrameUnionBoundingBox(frame, bb) ==
    [frame EXCEPT !.bounding_box = BoundingBoxUnion(frame.bounding_box, bb)]

(***************************************************************************)
(* interpreter.rs: the binary and unary operators on values.               *)
(***************************************************************************)
\* PlaceAll keeping the positions the elements had in f1.
RECURSIVE PlaceAllUnmoved(_, _, _, _)
PlaceAllUnmoved(sf, elements, anchor, k) ==
    IF k > Len(elements) THEN sf
    ELSE PlaceAllUnmoved(SubframePlaceElement(sf, elements[k].position,
                                              elements[k].element),
                         elements, anchor, k + 1)

\* The elements of one subframe of f1 placed onto subframe sf, offset by anchor.
RECURSIVE PlaceAll(_, _, _, _)
PlaceAll(sf, elements, anchor, k) ==
    IF k > Len(elements) THEN sf
    ELSE PlaceAll(SubframePlaceElement(sf, Vec2Add(anchor, elements[k].position),
                                       elements[k].element),
                  elements, anchor, k + 1)

\* The loop of eval_adj over the subframes of f1, from index i (1-based).
RECURSIVE AdjLoop(_, _, _, _)
AdjLoop(frame, f1, anchor, i) ==
    IF i > Len(f1.subframes) THEN frame
    ELSE LET grown == IF Len(frame.subframes) <= i - 1
                      THEN FramePushSubframe(frame, SubframeNew) ELSE frame
             placed == [grown EXCEPT !.subframes[i] =
                           PlaceAll(grown.subframes[i], f1.subframes[i].elements,
                                    anchor, 1)]
         IN  AdjLoop(placed, f1, anchor, i + 1)

\* eval_adj taking the bounding box of f1 without moving it to the anchor.
eval_adj_box_not_offset(lhs, rhs) ==
    IF lhs.type = "Frame" /\ rhs.type = "Frame"
    THEN LET f0 == lhs.frame
             f1 == rhs.frame
             anchor == f0.anchor
             merged == AdjLoop(f0, f1, anchor, 1)
             anchored == FrameSetAnchor(merged, Vec2Add(anchor, f1.anchor))
         IN  Ok(FrameVal(FrameUnionBoundingBox(anchored, f1.bounding_box)))
    ELSE Err(ErrorBinopType("~", [t |-> "Frame"], get_type(lhs), get_type(rhs)))

eval_adj(lhs, rhs) ==
    IF lhs.type = "Frame" /\ rhs.type = "Frame"
    THEN LET f0 == lhs.frame
             f1 == rhs.frame
             anchor == f0.anchor
             merged == AdjLoop(f0, f1, anchor, 1)
             anchored == FrameSetAnchor(merged, Vec2Add(anchor, f1.anchor))
         IN  Ok(FrameVal(FrameUnionBoundingBox(anchored,
                             BoundingBoxOffset(f1.bounding_box, anchor))))
    ELSE Err(ErrorBinopType("~", [t |-> "Frame"], get_type(lhs), get_type(rhs)))

\* eval_add without the guard on the dimensions of two numbers.
eval_add_any_dim(lhs, rhs) ==
    IF lhs.type = "Num" /\ rhs.type = "Num"
    THEN Ok(Num(RatAdd(lhs.x, rhs.x), lhs.dim))
    ELSE IF lhs.type = "Coord" /\ rhs.type = "Coord" /\ lhs.dim = rhs.dim
    THEN Ok(Coord(RatAdd(lhs.x, rhs.x), RatAdd(lhs.y, rhs.y), lhs.dim))
    ELSE IF lhs.type = "Str" /\ rhs.type = "Str"
    THEN Ok(Str(lhs.s \o rhs.s))
    ELSE Err(ErrorOther("Type error: '+' expects operands of the same type"))

eval_add(lhs, rhs) ==
    IF lhs.type = "Num" /\ rhs.type = "Num" /\ lhs.dim = rhs.dim
    THEN Ok(Num(RatAdd(lhs.x, rhs.x), lhs.dim))
    ELSE IF lhs.type = "Coord" /\ rhs.type = "Coord" /\ lhs.dim = rhs.dim
    THEN Ok(Coord(RatAdd(lhs.x, rhs.x), RatAdd(lhs.y, rhs.y), lhs.dim))
    ELSE IF lhs.type = "Str" /\ rhs.type = "Str"
    THEN Ok(Str(lhs.s \o rhs.s))
    ELSE Err(ErrorOther("Type error: '+' expects operands of the same type"))

eval_sub(lhs, rhs) ==
    IF lhs.type = "Num" /\ rhs.type = "Num" /\ lhs.dim = rhs.dim
    THEN Ok(Num(RatSub(lhs.x, rhs.x), lhs.dim))
    ELSE IF lhs.type = "Coord" /\ rhs.type = "Coord" /\ lhs.dim = rhs.dim
    THEN Ok(Coord(RatSub(lhs.x, rhs.x), RatSub(lhs.y, rhs.y), lhs.dim))
    ELSE Err(ErrorOther("Type error: '-' expects operands of the same type"))

eval_mul(lhs, rhs) ==
    IF lhs.type = "Num" /\ rhs.type = "Num"
    THEN Ok(Num(RatMul(lhs.x, rhs.x), lhs.dim + rhs.dim))
    ELSE IF lhs.type = "Coord" /\ rhs.type = "Num"
    THEN Ok(Coord(RatMul(lhs.x, rhs.x), RatMul(lhs.y, rhs.x), lhs.dim + rhs.dim))
    ELSE IF lhs.type = "Num" /\ rhs.type = "Coord"
    THEN Ok(Coord(RatMul(rhs.x, lhs.x), RatMul(rhs.y, lhs.x), rhs.dim + lhs.dim))
    ELSE Err(ErrorOther("Type error: '*' expects num or len operands"))

\* eval_div adding the dimensions as eval_mul does.
eval_div_adds_dims(lhs, rhs) ==
    IF lhs.type = "Num" /\ rhs.type = "Num"
    THEN Ok(Num(RatDiv(lhs.x, rhs.x), lhs.dim + rhs.dim))
    ELSE Err(ErrorOther("Type error: '/' expects num or len operands"))

eval_div(lhs, rhs) ==
    IF lhs.type = "Num" /\ rhs.type = "Num"
    THEN Ok(Num(RatDiv(lhs.x, rhs.x), lhs.dim - rhs.dim))
    ELSE Err(ErrorOther("Type error: '/' expects num or len operands"))

eval_neg(rhs) ==
    IF rhs.type = "Num" THEN Ok(Num(RatNeg(rhs.x), rhs.dim))
    ELSE IF rhs.type = "Coord" THEN Ok(Coord(RatNeg(rhs.x), RatNeg(rhs.y), rhs.dim))
    ELSE Err(ErrorOther("Type error: '-' expects a num or len operand"))

(***************************************************************************)
(* runtime.rs: variable lookup.  Idents is a non-empty sequence of names.  *)
(***************************************************************************)
Tail1(idents) == SubSeq(idents, 2, Len(idents))

RECURSIVE ValLookup(_, _)
RECURSIVE FrameLookup(_, _)
RECURSIVE EnvLookup(_, _)

ValLookup(self, idents) ==
    IF Len(idents) = 0 THEN Ok(self)
    ELSE IF self.type = "Frame" THEN FrameLookup(self.frame, idents)
    ELSE IF self.type = "Coord" /\ idents[1] = "x" THEN Ok(Num(self.x, self.dim))
    ELSE IF self.type = "Coord" /\ idents[1] = "y" THEN Ok(Num(self.y, self.dim))
    ELSE Err(ErrorOther("Type error while reading field"))

\* The environment of the frame is consulted before the computed fields.
FrameLookupEnvFirst(self, idents) ==
    IF idents[1] \in DOMAIN self.env THEN EnvLookup(self.env, idents)
    ELSE LET bb == self.bounding_box
             value == CASE idents[1] = "width" -> Num(bb.width, 1)
                        [] idents[1] = "height" -> Num(bb.height, 1)
                        [] idents[1] = "size" -> Coord(bb.width, bb.height, 1)
                        [] idents[1] = "offset" -> Coord(bb.x, bb.y, 1)
                        [] OTHER -> Str("")
         IN  IF idents[1] \notin {"width", "height", "size", "offset"}
             THEN EnvLookup(self.env, idents)
             ELSE IF Len(idents) > 1 THEN ValLookup(value, Tail1(idents)) ELSE Ok(value)

FrameLookup(self, idents) ==
    IF idents[1] \in {"width", "height", "size", "offset"}
    THEN LET bb == self.bounding_box
             value == CASE idents[1] = "width" -> Num(bb.width, 1)
                        [] idents[1] = "height" -> Num(bb.height, 1)
                        [] idents[1] = "size" -> Coord(bb.width, bb.height, 1)
                        [] idents[1] = "offset" -> Coord(bb.x, bb.y, 1)
         IN  IF Len(idents) > 1 THEN ValLookup(value, Tail1(idents)) ELSE Ok(value)
    ELSE EnvLookup(self.env, idents)

EnvLookup(self, idents) ==
    IF idents[1] \in DOMAIN self
    THEN IF Len(idents) = 1 THEN Ok(self[idents[1]])
         ELSE ValLookup(self[idents[1]], Tail1(idents))
    ELSE Err(ErrorOther("Variable does not exist."))

\* Env::lookup_len: the f64 of a length, or a type error.
EnvLookupLen(self, idents) ==
    LET r == EnvLookup(self, idents)
    IN  IF ~r.ok THEN r
        ELSE IF r.val.type = "Num" /\ r.val.dim = 1 THEN Ok(r.val.x)
        ELSE Err(ErrorVarType(idents, [t |-> "Num", dim |-> 1], get_type(r.val)))

\* Env::lookup_coord_num: the two f64 of a dimensionless coordinate, or a type error.
EnvLookupCoordNum(self, idents) ==
    LET r == EnvLookup(self, idents)
    IN  IF ~r.ok THEN r
        ELSE IF r.val.type = "Coord" /\ r.val.dim = 0 THEN Ok(Vec2(r.val.x, r.val.y))
        ELSE Err(ErrorVarType(idents, [t |-> "Coord", dim |-> 0], get_type(r.val)))

EnvLookupColor(self, idents) ==
    LET r == EnvLookup(self, idents)
    IN  IF ~r.ok THEN r
        ELSE IF r.val.type = "Col" THEN Ok(r.val)
        ELSE Err(ErrorVarType(idents, [t |-> "Color"], get_type(r.val)))

(***************************************************************************)
(* builtins.rs.  A builtin takes the expression interpreter (its env) and  *)
(* the argument vector.                                                    *)
(***************************************************************************)
TypeFrame == [t |-> "Frame"]
TypeCoord(d) == [t |-> "Coord", dim |-> d]
TypeNum(d) == [t |-> "Num", dim |-> d]

\* The index of the first argument whose type differs from the expected one,
\* 0 when there is none.
RECURSIVE FirstMismatch(_, _, _)
FirstMismatch(expected, actual, i) ==
    IF i > Len(expected) THEN 0
    ELSE IF expected[i] # get_type(actual[i]) THEN i
    ELSE FirstMismatch(expected, actual, i + 1)

\* The types of the arguments that are there are checked before their number.
validate_args_types_first(fn_name, expected, actual) ==
    LET both == IF Len(expected) < Len(actual) THEN Len(expected) ELSE Len(actual)
        i == FirstMismatch(SubSeq(expected, 1, both), actual, 1)
    IN  IF i # 0 THEN Err(ErrorArgType(fn_name, expected[i], get_type(actual[i]), i - 1))
        ELSE IF Len(expected) # Len(actual)
        THEN Err(ErrorArity(fn_name, Len(expected), Len(actual)))
        ELSE Ok(<<>>)

validate_args(fn_name, expected, actual) ==
    IF Len(expected) # Len(actual)
    THEN Err(ErrorArity(fn_name, Len(expected), Len(actual)))
    ELSE LET i == FirstMismatch(expected, actual, 1)
         IN  IF i = 0 THEN Ok(<<>>)
             ELSE Err(ErrorArgType(fn_name, expected[i], get_type(actual[i]), i - 1))

\* The subframes of frame with every element moved by off.
RECURSIVE MoveSubframes(_, _, _)
MoveSubframes(subframes, off, i) ==
    IF i > Len(subframes) THEN <<>>
    ELSE <<[elements |->
              [k \in 1..Len(subframes[i].elements) |->
                  PlacedElement(Vec2Add(subframes[i].elements[k].position, off),
                                subframes[i].elements[k].element)]]>>
         \o MoveSubframes(subframes, off, i + 1)

at(interpreter, args) ==
    LET v == validate_args("at", <<TypeFrame, TypeCoord(1)>>, args)
    IN  IF ~v.ok THEN v
        ELSE LET frame == args[1].frame
                 off == Vec2(args[2].x, args[2].y)
                 f0 == FrameFromEnv(frame.env)
                 f1 == [f0 EXCEPT !.subframes = MoveSubframes(frame.subframes, off, 1)]
                 f2 == FrameUnionBoundingBox(f1, BoundingBoxOffset(frame.bounding_box, off))
                 f3 == FrameUnionBoundingBox(f2, BoundingBox(off, Vec2Zero))
             IN  Ok(FrameVal(FrameSetAnchor(f3, Vec2Add(frame.anchor, off))))

ElementScaled(elements, scale) ==
    [kind |-> "Scaled", elements |-> elements, scale |-> scale]

\* fit_scale with the aspect-ratio comparison turned around.
fit_scale_larger(bb, size) ==
    IF size[1] = Zero \/ size[2] = Zero
    THEN Err(ErrorOther("Cannot fit frame in a box with width or height equal to 0."))
    ELSE IF bb.height # Zero
    THEN IF RatLt(RatDiv(bb.width, bb.height), RatDiv(size[1], size[2]))
         THEN Ok(RatDiv(size[1], bb.width))
         ELSE Ok(RatDiv(size[2], bb.height))
    ELSE IF bb.width # Zero
    THEN IF RatGt(RatDiv(bb.height, bb.width), RatDiv(size[2], size[1]))
         THEN Ok(RatDiv(size[2], bb.height))
         ELSE Ok(RatDiv(size[1], bb.width))
    ELSE Err(ErrorOther("Cannot fit a frame of size (0w, 0w)."))

\* fit_scale without the check of the target size.
fit_scale_unchecked_target(bb, size) ==
    IF bb.height # Zero
    THEN IF RatGt(RatDiv(bb.width, bb.height), RatDiv(size[1], size[2]))
         THEN Ok(RatDiv(size[1], bb.width))
         ELSE Ok(RatDiv(size[2], bb.height))
    ELSE IF bb.width # Zero
    THEN IF RatGt(RatDiv(bb.height, bb.width), RatDiv(size[2], size[1]))
         THEN Ok(RatDiv(size[2], bb.height))
         ELSE Ok(RatDiv(size[1], bb.width))
    ELSE Err(ErrorOther("Cannot fit a frame of size (0w, 0w)."))

\* The uniform scale factor fit computes, or the error it returns.
fit_scale(bb, size) ==
    IF size[1] = Zero \/ size[2] = Zero
    THEN Err(ErrorOther("Cannot fit frame in a box with width or height equal to 0."))
    ELSE IF bb.height # Zero
    THEN IF RatGt(RatDiv(bb.width, bb.height), RatDiv(size[1], size[2]))
         THEN Ok(RatDiv(size[1], bb.width))
         ELSE Ok(RatDiv(size[2], bb.height))
    ELSE IF bb.width # Zero
    THEN IF RatGt(RatDiv(bb.height, bb.width), RatDiv(size[2], size[1]))
         THEN Ok(RatDiv(size[2], bb.height))
         ELSE Ok(RatDiv(size[1], bb.width))
    ELSE Err(ErrorOther("Cannot fit a frame of size (0w, 0w)."))

fit(interpreter, args) ==
    LET v == validate_args("fit", <<TypeFrame, TypeCoord(1)>>, args)
    IN  IF ~v.ok THEN v
        ELSE LET frame == args[1].frame
                 size == <<args[2].x, args[2].y>>
                 bb == frame.bounding_box
                 scale == fit_scale(bb, size)
             IN  IF ~scale.ok THEN scale
                 ELSE LET f0 == FrameFromEnv(frame.env)
                          f1 == [f0 EXCEPT !.subframes =
                                   [i \in 1..Len(frame.subframes) |->
                                       SubframePlaceElement(SubframeNew, Vec2Zero,
                                           ElementScaled(frame.subframes[i].elements,
                                                         scale.val))]]
                          f2 == FrameSetAnchor(f1, Vec2Mul(frame.anchor, scale.val))
                      IN  Ok(FrameVal(FrameUnionBoundingBox(f2,
                                 BoundingBoxScale(bb, scale.val))))

ElementStrokePolygon(color, line_width, close, vertices, kind) ==
    [kind |-> "StrokePolygon", color |-> color, line_width |-> line_width,
     close |-> close, vertices |-> vertices, polygon_kind |-> kind]

ElementFillPolygon(color, vertices, kind) ==
    [kind |-> "FillPolygon", color |-> color, vertices |-> vertices,
     polygon_kind |-> kind]

line(interpreter, args) ==
    LET v == validate_args("line", <<TypeCoord(1)>>, args)
    IN  IF ~v.ok THEN v
        ELSE LET offset == Vec2(args[1].x, args[1].y)
                 color == EnvLookupColor(interpreter.env, <<"color">>)
                 line_width == EnvLookupLen(interpreter.env, <<"line_width">>)
             IN  IF ~color.ok THEN color
                 ELSE IF ~line_width.ok THEN line_width
                 ELSE LET elem == ElementStrokePolygon(color.val, line_width.val, FALSE,
                                                       <<Vec2Zero, offset>>, "Lines")
                          f1 == FramePlaceElementOnLastSubframe(FrameNew, Vec2Zero, elem)
                          f2 == FrameSetAnchor(f1, offset)
                      IN  Ok(FrameVal(FrameUnionBoundingBox(f2,
                                 BoundingBoxSized(offset.x, offset.y))))

\* make_polygon_element with DrawKind::Fill, and draw_rectangle on top of it.
RECURSIVE UnionVertices(_, _, _)
UnionVertices(frame, vertices, i) ==
    IF i > Len(vertices) THEN frame
    ELSE UnionVertices(FrameUnionBoundingBox(frame,
                           BoundingBoxOffset(BoundingBoxEmpty, vertices[i])),
                       vertices, i + 1)

fill_rectangle(interpreter, args) ==
    LET v == validate_args("fill_rectangle", <<TypeCoord(1)>>, args)
    IN  IF ~v.ok THEN v
        ELSE LET w == args[1].x
                 h == args[1].y
                 vertices == <<Vec2Zero, Vec2(Zero, h), Vec2(w, h), Vec2(w, Zero)>>
                 color == EnvLookupColor(interpreter.env, <<"color">>)
             IN  IF ~color.ok THEN color
                 ELSE LET f1 == UnionVertices(FrameNew, vertices, 1)
                          f2 == FramePlaceElementOnLastSubframe(f1, Vec2Zero,
                                    ElementFillPolygon(color.val, vertices, "Lines"))
                      IN  Ok(FrameVal(FrameSetAnchor(f2, Vec2(w, h))))

(***************************************************************************)
(* interpreter.rs: the part of eval_put_at that changes the frame.         *)
(***************************************************************************)
\* The while loop of eval_put_at: push subframes until there are n.
RECURSIVE EnsureSubframes(_, _)
EnsureSubframes(frame, n) ==
    IF n > Len(frame.subframes)
    THEN EnsureSubframes(FramePushSubframe(frame, SubframeNew), n)
    ELSE frame

\* PutElements keeping the positions the elements had in content.
RECURSIVE PutElementsUnmoved(_, _, _, _)
PutElementsUnmoved(dest_sf, elements, pos, k) ==
    IF k > Len(elements) THEN dest_sf
    ELSE PutElementsUnmoved(SubframePlaceElement(dest_sf, elements[k].position,
                                                 elements[k].element),
                            elements, pos, k + 1)

\* The inner for loop of eval_put_at: the elements placed on dest_sf at pos.
RECURSIVE PutElements(_, _, _, _)
PutElements(dest_sf, elements, pos, k) ==
    IF k > Len(elements) THEN dest_sf
    ELSE PutElements(SubframePlaceElement(dest_sf, Vec2Add(pos, elements[k].position),
                                          elements[k].element),
                     elements, pos, k + 1)

\* The for loop of eval_put_at, from content subframe i (counted from 0) on.
RECURSIVE PlaceSubframes(_, _, _, _, _)
PlaceSubframes(frame, current_subframe, content, pos, i) ==
    IF i >= Len(content.subframes) THEN frame
    ELSE PlaceSubframes(
             [frame EXCEPT !.subframes[current_subframe + i + 1] =
                 PutElements(@, content.subframes[i + 1].elements, pos, 1)],
             current_subframe, content, pos, i + 1)

\* The frame of eval_put_at after content was placed at pos.
Placed(frame, current_subframe, content, pos) ==
    FrameSetAnchor(
        FrameUnionBoundingBox(
            PlaceSubframes(EnsureSubframes(frame, Len(content.subframes)),
                           current_subframe, content, pos, 0),
            BoundingBoxOffset(content.bounding_box, pos)),
        Vec2Add(pos, content.anchor))

(***************************************************************************)
(* SpecOps: the operators and builtins applied to operands drawn from      *)
(* bounded sets.  Frames are drawn from the frames the builtins and        *)
(* operators produce, in the default environment.                          *)
(***************************************************************************)
NumRange == (0 - 1)..MaxNum
DimRange == (0 - 1)..MaxDim

NumInputs == {Num(R(n), d) : n \in NumRange, d \in DimRange}
CoordInputs == {Coord(R(x), R(y), d) : x \in NumRange, y \in 0..1, d \in DimRange}
LenCoords == {Coord(R(x), R(y), 1) : x \in NumRange, y \in NumRange}
DiagCoords == {Coord(R(n), R(n), 1) : n \in NumRange}

DefaultInterpreter == [env |-> EnvNew]

\* The value of the block expression "{ }" in the default environment.
EmptyFrame == FrameVal(FrameFromEnv(EnvNew))

LineFrames == {line(DefaultInterpreter, <<c>>).val : c \in LenCoords}
DiagFrames == {line(DefaultInterpreter, <<c>>).val : c \in DiagCoords}
MovedFrames == {at(DefaultInterpreter, <<f, c>>).val : f \in DiagFrames, c \in DiagCoords}
AdjoinedFrames == {eval_adj(f, g).val : f \in DiagFrames, g \in DiagFrames}
RectFrames == {fill_rectangle(DefaultInterpreter, <<c>>).val : c \in DiagCoords}

FrameInputs == LineFrames \cup {EmptyFrame} \cup MovedFrames \cup AdjoinedFrames
                  \cup RectFrames

ArithInputs == NumInputs \cup CoordInputs \cup {Str("a"), EmptyFrame}

BinopCalls == {[fn |-> f, args |-> <<a, b>>] :
                  f \in {"add", "sub", "mul", "div"}, a \in ArithInputs, b \in ArithInputs}
NegCalls == {[fn |-> "neg", args |-> <<a>>] : a \in ArithInputs}
AdjCalls == {[fn |-> "adj", args |-> <<a, b>>] :
                a \in FrameInputs \cup {Num(R(1), 1)}, b \in FrameInputs \cup {Num(R(1), 1)}}
FitTargets == LenCoords \cup {Coord(R(1), R(1), 0), Num(R(1), 1)}
FitCalls == {[fn |-> "fit", args |-> <<f, c>>] :
                f \in FrameInputs \cup {Num(R(1), 1)}, c \in FitTargets}
                \cup {[fn |-> "fit", args |-> <<f>>] : f \in DiagFrames}
AtCalls == {[fn |-> "at", args |-> <<f, c>>] : f \in LineFrames, c \in FitTargets}
LineCalls == {[fn |-> "line", args |-> <<c>>] : c \in CoordInputs \cup LenCoords}
RectCalls == {[fn |-> "fill_rectangle", args |-> <<c>>] : c \in LenCoords}

\* The builtins called with zero to three arguments of several types.
ArgumentLists ==
    LET values == {Num(R(1), 1), Coord(R(1), R(1), 0), Coord(R(1), R(1), 1), EmptyFrame}
    IN  UNION {[1..n -> values] : n \in 0..3}
ArityCalls == {[fn |-> f, args |-> a] :
                  f \in {"fit", "at", "line", "fill_rectangle"}, a \in ArgumentLists}

\* put <content> at <pos>, evaluated on a frame under construction.
PutAtCalls == {[fn |-> "put_at", args |-> <<f, c, p>>] :
                  f \in FrameInputs,
                  c \in DiagFrames \cup RectFrames \cup {EmptyFrame, Num(R(1), 1)},
                  p \in DiagCoords \cup {Coord(R(1), R(1), 0)}}

Calls == BinopCalls \cup NegCalls \cup AdjCalls \cup FitCalls \cup AtCalls
            \cup LineCalls \cup RectCalls \cup ArityCalls \cup PutAtCalls

InitOps ==
    /\ call \in Calls
    /\ ret = Pending
    /\ lexer = Idle /\ lex_result = Idle
    /\ parser = Idle /\ parse_result = Idle /\ statements = Idle
    /\ stmt_interpreter = Idle /\ frames = Idle /\ outcome = Idle /\ aborted = Idle
    /\ canvas_size = Idle /\ painted = Idle /\ printed = Idle

Returns(result) ==
    /\ ret = Pending
    /\ ret' = result
    /\ UNCHANGED <<call, lexVars, parseVars, evalVars>>

EvalAdd ==
    /\ call.fn = "add"
    /\ Returns(eval_add(call.args[1], call.args[2]))
EvalSub ==
    /\ call.fn = "sub"
    /\ Returns(eval_sub(call.args[1], call.args[2]))
EvalMul ==
    /\ call.fn = "mul"
    /\ Returns(eval_mul(call.args[1], call.args[2]))
EvalDiv ==
    /\ call.fn = "div"
    /\ Returns(eval_div(call.args[1], call.args[2]))
EvalNeg ==
    /\ call.fn = "neg"
    /\ Returns(eval_neg(call.args[1]))
EvalAdj ==
    /\ call.fn = "adj"
    /\ Returns(eval_adj(call.args[1], call.args[2]))
CallFit ==
    /\ call.fn = "fit"
    /\ Returns(fit(DefaultInterpreter, call.args))
CallAt ==
    /\ call.fn = "at"
    /\ Returns(at(DefaultInterpreter, call.args))
CallLine ==
    /\ call.fn = "line"
    /\ Returns(line(DefaultInterpreter, call.args))
CallFillRectangle ==
    /\ call.fn = "fill_rectangle"
    /\ Returns(fill_rectangle(DefaultInterpreter, call.args))

\* eval_put_at on the frame args[1], with the values of its two expressions.
PlaceOnFrame ==
    /\ call.fn = "put_at"
    /\ Returns(IF call.args[2].type # "Frame"
               THEN Err(ErrorOther("Cannot place <TODO>. Only frames can be placed."))
               ELSE IF ~(call.args[3].type = "Coord" /\ call.args[3].dim = 1)
               THEN Err(ErrorOther("Placement requires a coordinate with length units"))
               ELSE Ok(FrameVal(Placed(call.args[1].frame, 0, call.args[2].frame,
                                       Vec2(call.args[3].x, call.args[3].y)))))

NextOps ==
    \/ EvalAdd \/ EvalSub \/ EvalMul \/ EvalDiv \/ EvalNeg \/ EvalAdj
    \/ CallFit \/ CallAt \/ CallLine \/ CallFillRectangle \/ PlaceOnFrame

SpecOps == InitOps /\ [][NextOps]_vars

(***************************************************************************)
(* Claims checked under SpecOps.                                           *)
(***************************************************************************)
Returned(fn) == call # Idle /\ call.fn = fn /\ ret # Pending
Arg(i) == call.args[i]

\* C2: '+' and '-' on two Num or two Coord values succeed exactly when the
\* dimensions are equal, and the result is of the same variant and dimension;
\* operands of different variants give an error and no value.
C2_AddSubNeedEqualDims ==
    (Returned("add") \/ Returned("sub")) =>
        /\ (Arg(1).type = Arg(2).type /\ Arg(1).type \in {"Num", "Coord"}) =>
              /\ ret.ok <=> Arg(1).dim = Arg(2).dim
              /\ ret.ok => /\ ret.val.type = Arg(1).type
                           /\ ret.val.dim = Arg(1).dim
                           /\ ret.val.dim = Arg(2).dim
        /\ Arg(1).type # Arg(2).type => ~ret.ok
        /\ ~ret.ok => /\ "val" \notin DOMAIN ret
                      /\ ret.err.kind = "Other"

C2_Witness ==
    /\ Returned("add")
    /\ Arg(1).type = "Coord" /\ Arg(2).type = "Coord"
    /\ Arg(1).dim = 1 /\ Arg(2).dim = 0
    /\ ~ret.ok

\* C3: multiplication adds the dimensions, division subtracts them, and a
\* Coord times a Num in either order is the Coord scaled in both components.
C3_MulDivCarryDims ==
    /\ Returned("mul") =>
         /\ (Arg(1).type = "Num" /\ Arg(2).type = "Num") =>
               ret = Ok(Num(RatMul(Arg(1).x, Arg(2).x), Arg(1).dim + Arg(2).dim))
         /\ (Arg(1).type = "Coord" /\ Arg(2).type = "Num") =>
               ret = Ok(Coord(RatMul(Arg(1).x, Arg(2).x), RatMul(Arg(1).y, Arg(2).x),
                              Arg(1).dim + Arg(2).dim))
         /\ (Arg(1).type = "Num" /\ Arg(2).type = "Coord") =>
               ret = Ok(Coord(RatMul(Arg(2).x, Arg(1).x), RatMul(Arg(2).y, Arg(1).x),
                              Arg(1).dim + Arg(2).dim))
    /\ (Returned("div") /\ Arg(1).type = "Num" /\ Arg(2).type = "Num") =>
         /\ ret.ok
         /\ ret.val.type = "Num"
         /\ ret.val.dim = Arg(1).dim - Arg(2).dim

C3_Witness ==
    /\ Returned("div")
    /\ Arg(1).type = "Num" /\ Arg(2).type = "Num"
    /\ Arg(1).dim = 1 /\ Arg(2).dim = 2
    /\ ret.ok /\ ret.val.dim = 0 - 1

\* The edges of a bounding box.
Left(bb) == bb.x
Right(bb) == RatAdd(bb.x, bb.width)
Top(bb) == bb.y
Bottom(bb) == RatAdd(bb.y, bb.height)

\* C5: f0 ~ f1 has anchor f0.anchor + f1.anchor, and its bounding box spans
\* from the least left/top edge to the greatest right/bottom edge of f0's box
\* and f1's box translated by f0.anchor; other operand types are a type error.
C5_AdjoinAnchorAndBox ==
    Returned("adj") =>
        IF Arg(1).type = "Frame" /\ Arg(2).type = "Frame"
        THEN LET f0 == Arg(1).frame
                 f1 == Arg(2).frame
                 b0 == f0.bounding_box
                 b1 == f1.bounding_box
                 a == f0.anchor
             IN  /\ ret.ok /\ ret.val.type = "Frame"
                 /\ LET r == ret.val.frame
                        rb == r.bounding_box
                    IN  /\ r.anchor.x = RatAdd(a.x, f1.anchor.x)
                        /\ r.anchor.y = RatAdd(a.y, f1.anchor.y)
                        /\ Left(rb) = RatMin(Left(b0), RatAdd(Left(b1), a.x))
                        /\ Right(rb) = RatMax(Right(b0), RatAdd(Right(b1), a.x))
                        /\ Top(rb) = RatMin(Top(b0), RatAdd(Top(b1), a.y))
                        /\ Bottom(rb) = RatMax(Bottom(b0), RatAdd(Bottom(b1), a.y))
        ELSE ~ret.ok /\ ret.err.kind = "Type"

C5_Witness ==
    /\ Returned("adj")
    /\ Arg(1).type = "Frame" /\ Arg(2).type = "Frame"
    /\ Arg(1).frame.anchor = Vec2(R(2), R(0))
    /\ Arg(2).frame.anchor = Vec2(R(1), R(0))
    /\ ret.ok /\ ret.val.frame.anchor = Vec2(R(3), R(0))
    /\ ret.val.frame.bounding_box # Arg(1).frame.bounding_box

\* The elements of a subframe list at index i, none when the list is shorter.
ElementsAt(subframes, i) == IF i <= Len(subframes) THEN subframes[i].elements ELSE <<>>

Shifted(elements, by) ==
    [k \in 1..Len(elements) |->
        PlacedElement(Vec2Add(by, elements[k].position), elements[k].element)]

MaxOf(a, b) == IF a < b THEN b ELSE a

\* C6: f0 ~ f1 has max(#f0, #f1) subframes; subframe i holds f0's elements of
\* subframe i unchanged, followed by f1's elements of subframe i shifted by f0.anchor.
C6_AdjoinMergesSubframes ==
    (Returned("adj") /\ Arg(1).type = "Frame" /\ Arg(2).type = "Frame") =>
        LET f0 == Arg(1).frame
            f1 == Arg(2).frame
            r == ret.val.frame
        IN  /\ Len(r.subframes) = MaxOf(Len(f0.subframes), Len(f1.subframes))
            /\ \A i \in 1..Len(r.subframes) :
                  r.subframes[i].elements =
                      ElementsAt(f0.subframes, i)
                          \o Shifted(ElementsAt(f1.subframes, i), f0.anchor)

C6_Witness ==
    /\ Returned("adj") /\ ret.ok
    /\ Len(Arg(1).frame.subframes) = 1 /\ Len(Arg(2).frame.subframes) = 1
    /\ Len(Arg(1).frame.subframes[1].elements) = 2
    /\ Arg(1).frame.anchor # Vec2Zero
    /\ Len(ret.val.frame.subframes[1].elements) = 4

\* fit was called with a frame and a Coord of dimension 1.
FitCalled ==
    /\ Returned("fit") /\ Len(call.args) = 2
    /\ Arg(1).type = "Frame" /\ Arg(2).type = "Coord" /\ Arg(2).dim = 1

\* The result of fit is the frame scaled by the smaller of the two factors
\* tw/W and th/H (a factor with divisor 0 is +inf), and fits the target.
FitScaledBySmallerFactor ==
    LET frame == Arg(1).frame
        bb == frame.bounding_box
        tw == Arg(2).x
        th == Arg(2).y
        s == RatMin(RatDiv(tw, bb.width), RatDiv(th, bb.height))
        r == ret.val.frame
    IN  /\ r.anchor = Vec2(RatMul(frame.anchor.x, s), RatMul(frame.anchor.y, s))
        /\ r.bounding_box = [x |-> RatMul(bb.x, s), y |-> RatMul(bb.y, s),
                             width |-> RatMul(bb.width, s),
                             height |-> RatMul(bb.height, s)]
        /\ RatLe(r.bounding_box.width, tw)
        /\ RatLe(r.bounding_box.height, th)

\* C7 as stated: for every target of dimension 1, fit scales by the smaller of
\* the factors tw/W and th/H, and the result fits inside (tw, th).
C7_Original_FitAnyTarget == (FitCalled /\ ret.ok) => FitScaledBySmallerFactor

\* C7 (amended): for a target with tw > 0 and th > 0, fit scales anchor and
\* bounding box by the smaller of the factors tw/W and th/H, and in exact
\* arithmetic the result is at most tw wide and at most th high.
C7_FitPositiveTarget ==
    (FitCalled /\ ret.ok /\ RatGt(Arg(2).x, Zero) /\ RatGt(Arg(2).y, Zero)) =>
        FitScaledBySmallerFactor

C7_Witness ==
    /\ FitCalled /\ ret.ok
    /\ Arg(1).frame.bounding_box.width = R(2)
    /\ Arg(1).frame.bounding_box.height = R(1)
    /\ Arg(2).x = R(1) /\ Arg(2).y = R(1)
    /\ ret.val.frame.bounding_box.width = R(1)
    /\ ret.val.frame.bounding_box.height = Rat(1, 2)

ZeroAreaTarget == Arg(2).x = Zero \/ Arg(2).y = Zero
ZeroAreaFrame ==
    \/ Arg(1).frame.bounding_box.width = Zero
    \/ Arg(1).frame.bounding_box.height = Zero
ZeroSizeFrame ==
    /\ Arg(1).frame.bounding_box.width = Zero
    /\ Arg(1).frame.bounding_box.height = Zero

HoldsOrigin(bb) ==
    /\ RatLe(Zero, bb.width) /\ RatLe(Zero, bb.height)
    /\ RatLe(bb.x, Zero) /\ RatLe(Zero, RatAdd(bb.x, bb.width))
    /\ RatLe(bb.y, Zero) /\ RatLe(Zero, RatAdd(bb.y, bb.height))

\* The outer box contains the inner box.
BoxContains(outer, inner) ==
    /\ RatLe(outer.x, inner.x)
    /\ RatLe(outer.y, inner.y)
    /\ RatLe(RatAdd(inner.x, inner.width), RatAdd(outer.x, outer.width))
    /\ RatLe(RatAdd(inner.y, inner.height), RatAdd(outer.y, outer.height))

ParameterTypes(fn_name) ==
    CASE fn_name \in {"fit", "at"} -> <<TypeFrame, TypeCoord(1)>>
      [] fn_name \in {"line", "fill_rectangle"} -> <<TypeCoord(1)>>

\* The value has the type: the same kind of value and, for numbers and
\* coordinates, the same dimension.
HasType(v, type) ==
    CASE type.t = "Frame" -> v.type = "Frame"
      [] type.t = "Coord" -> v.type = "Coord" /\ v.dim = type.dim
      [] type.t = "Num" -> v.type = "Num" /\ v.dim = type.dim

BuiltinCalled == call.fn \in {"fit", "at", "line", "fill_rectangle"} /\ ret # Pending

\* C26: a builtin called with the wrong number of arguments returns the
\* arity error with the expected and the actual count, whatever the types
\* of the arguments; with the right number, the first argument of the wrong
\* type (or dimension) gives the type error for its position, and without
\* such an argument the result is neither of the two errors.
C26_ArityThenLeftmostType ==
    BuiltinCalled =>
        LET expected == ParameterTypes(call.fn)
            wrong == {i \in 1..Len(call.args) :
                         i <= Len(expected) /\ ~HasType(call.args[i], expected[i])}
        IN  IF Len(call.args) # Len(expected)
            THEN /\ ~ret.ok
                 /\ ret.err.kind = "Arity"
                 /\ ret.err.expected = Len(expected)
                 /\ ret.err.actual = Len(call.args)
            ELSE IF wrong # {}
            THEN \E i \in wrong :
                    /\ \A j \in wrong : i <= j
                    /\ ~ret.ok
                    /\ ret.err.kind = "Type"
                    /\ ret.err.arg_num = i - 1
                    /\ ret.err.expected = expected[i]
                    /\ ret.err.actual = get_type(call.args[i])
            ELSE ret.ok \/ ret.err.kind = "Other"

\* fit was called with a frame and a coordinate of dimension 0.
C26_Witness ==
    /\ call.fn = "fit" /\ Len(call.args) = 2
    /\ call.args[1].type = "Frame"
    /\ call.args[2] = Coord(R(1), R(1), 0)
    /\ ret = Err(ErrorArgType("fit", TypeCoord(1), TypeCoord(0), 1))

(***************************************************************************)
(* ast.rs: terms and statements.  A Block is the sequence of its           *)
(* statements.                                                             *)
(***************************************************************************)
TermString(s) == [t |-> "String", s |-> s]
TermNumber(x, unit) == [t |-> "Number", x |-> x, unit |-> unit]
TermColor(r, g, b) == [t |-> "Color", r |-> r, g |-> g, b |-> b]
TermIdents(idents) == [t |-> "Idents", idents |-> idents]
TermCoord(x, y) == [t |-> "Coord", x |-> x, y |-> y]
TermBinOp(lhs, op, rhs) == [t |-> "BinOp", lhs |-> lhs, op |-> op, rhs |-> rhs]
TermUnOp(op, rhs) == [t |-> "UnOp", op |-> op, rhs |-> rhs]
TermFnCall(f, args) == [t |-> "FnCall", f |-> f, args |-> args]
TermFnDef(args, body) == [t |-> "FnDef", args |-> args, body |-> body]
TermBlock(block) == [t |-> "Block", block |-> block]

StmtImport(idents) == [t |-> "Import", idents |-> idents]
StmtAssign(target, expr) == [t |-> "Assign", target |-> target, expr |-> expr]
StmtReturn(expr) == [t |-> "Return", expr |-> expr]
StmtBlock(block) == [t |-> "Block", block |-> block]
StmtPutAt(frame, pos) == [t |-> "PutAt", frame |-> frame, pos |-> pos]

None == [some |-> FALSE]
Some(v) == [some |-> TRUE, val |-> v]

(***************************************************************************)
(* interpreter.rs: the expression interpreter (self is its env) and the    *)
(* statement interpreter (self is its frame and current_subframe).  The    *)
(* font map is not modelled: the builtins that use it are never called.    *)
(***************************************************************************)
\* The ? operator on a Result: the error is returned at once, otherwise the
\* computation goes on with the value.
Try(result, Continue(_)) ==
    CHOOSE out \in {IF ~r.ok THEN r ELSE Continue(r.val) : r \in {result}} : TRUE

RECURSIVE eval_expr(_, _)
RECURSIVE eval_coord(_, _)
RECURSIVE eval_binop(_, _)
RECURSIVE eval_unop(_, _)
RECURSIVE EvalArgs(_, _, _)
RECURSIVE eval_call(_, _)
RECURSIVE eval_call_extrin(_, _, _)
RECURSIVE BlockLoop(_, _, _)
RECURSIVE eval_block(_, _)
RECURSIVE eval_statement(_, _)
RECURSIVE eval_assign(_, _)
RECURSIVE eval_put_at(_, _)

\* The em size is taken as if it were fixed when the literal was parsed.
eval_num_default_em(self, num) ==
    CASE num.unit = "W" -> Ok(Num(RatMul(R(1920), num.x), 1))
      [] num.unit = "H" -> Ok(Num(RatMul(R(1080), num.x), 1))
      [] num.unit = "Pt" -> Ok(Num(RatMul(R(1), num.x), 1))
      [] num.unit = "Em" -> Ok(Num(RatMul(R(108), num.x), 1))
      [] OTHER -> Ok(Num(num.x, 0))

eval_num(self, num) ==
    CASE num.unit = "W" -> Ok(Num(RatMul(R(1920), num.x), 1))
      [] num.unit = "H" -> Ok(Num(RatMul(R(1080), num.x), 1))
      [] num.unit = "Pt" -> Ok(Num(RatMul(R(1), num.x), 1))
      [] num.unit = "Em" ->
            Try(EnvLookupLen(self.env, <<"font_size">>),
                LAMBDA emsize : Ok(Num(RatMul(emsize, num.x), 1)))
      [] OTHER -> Ok(Num(num.x, 0))

eval_color(col) == Col(Rat(col.r, 255), Rat(col.g, 255), Rat(col.b, 255))

\* Builtin(intrin): the function pointer the value carries.
CallIntrin(name, self, args) ==
    CASE name = "fit" -> fit(self, args)
      [] name = "line" -> line(self, args)
      [] name = "fill_rectangle" -> fill_rectangle(self, args)

eval_expr(self, term) ==
    CASE term.t = "String" -> Ok(Str(term.s))
      [] term.t = "Number" -> eval_num(self, term)
      [] term.t = "Color" -> Ok(eval_color(term))
      [] term.t = "Idents" -> EnvLookup(self.env, term.idents)
      [] term.t = "Coord" -> eval_coord(self, term)
      [] term.t = "BinOp" -> eval_binop(self, term)
      [] term.t = "UnOp" -> eval_unop(self, term)
      [] term.t = "FnCall" -> eval_call(self, term)
      [] term.t = "FnDef" -> Ok(FnExtrin(term))
      [] term.t = "Block" -> eval_block(self, term.block)

eval_coord(self, coord) ==
    Try(eval_expr(self, coord.x), LAMBDA x :
    Try(eval_expr(self, coord.y), LAMBDA y :
        IF x.type = "Num" /\ y.type = "Num" /\ x.dim = y.dim
        THEN Ok(Coord(x.x, y.x, x.dim))
        ELSE Err(ErrorOther("Type error: coord must be (num, num) or (len, len)"))))

eval_binop(self, binop) ==
    Try(eval_expr(self, binop.lhs), LAMBDA lhs :
    Try(eval_expr(self, binop.rhs), LAMBDA rhs :
        CASE binop.op = "Adj" -> eval_adj(lhs, rhs)
          [] binop.op = "Add" -> eval_add(lhs, rhs)
          [] binop.op = "Sub" -> eval_sub(lhs, rhs)
          [] binop.op = "Mul" -> eval_mul(lhs, rhs)
          [] binop.op = "Div" -> eval_div(lhs, rhs)
          [] binop.op = "Exp" -> Err([kind |-> "Panic", msg |-> "TODO: eval exp"])))

eval_unop(self, unop) ==
    Try(eval_expr(self, unop.rhs), LAMBDA rhs : eval_neg(rhs))

\* The argument loop of eval_call: the values of args[i..], or the first error.
EvalArgs(self, args, i) ==
    IF i > Len(args) THEN Ok(<<>>)
    ELSE Try(eval_expr(self, args[i]), LAMBDA v :
         Try(EvalArgs(self, args, i + 1), LAMBDA rest : Ok(<<v>> \o rest)))

\* The callee is resolved before the arguments are evaluated.
eval_call_resolves_callee_first(self, call_) ==
    Try(eval_expr(self, call_.f), LAMBDA func :
    Try(EvalArgs(self, call_.args, 1), LAMBDA args :
        CASE func.type = "FnExtrin" -> eval_call_extrin(self, func.fn_def, args)
          [] func.type = "FnIntrin" -> CallIntrin(func.name, self, args)
          [] OTHER -> Err(ErrorOther("Type error: attempting to call value"))))

eval_call(self, call_) ==
    Try(EvalArgs(self, call_.args, 1), LAMBDA args :
    Try(eval_expr(self, call_.f), LAMBDA func :
        CASE func.type = "FnExtrin" -> eval_call_extrin(self, func.fn_def, args)
          [] func.type = "FnIntrin" -> CallIntrin(func.name, self, args)
          [] OTHER -> Err(ErrorOther("Type error: attempting to call value"))))

\* The loop of eval_call_extrin that brings the arguments in scope.
RECURSIVE PutArgs(_, _, _, _)
PutArgs(env, names, vals, i) ==
    IF i > Len(names) THEN env
    ELSE PutArgs(EnvPut(env, names[i], vals[i]), names, vals, i + 1)

\* The body evaluated in the default environment extended with the arguments.
eval_call_extrin_default_env(self, fn_def, args) ==
    IF Len(fn_def.args) # Len(args)
    THEN Err(ErrorOther("Arity error: function takes a different number of arguments"))
    ELSE eval_block([env |-> PutArgs(EnvNew, fn_def.args, args, 1)], fn_def.body)

eval_call_extrin(self, fn_def, args) ==
    IF Len(fn_def.args) # Len(args)
    THEN Err(ErrorOther("Arity error: function takes a different number of arguments"))
    ELSE eval_block([env |-> PutArgs(self.env, fn_def.args, args, 1)], fn_def.body)

get_expr_interpreter(self) == [env |-> self.frame.env]

\* The statement loop of a block that goes on after a return statement.
BlockLoopRunsPastReturn(stmt_interp, block, i) ==
    IF i > Len(block) THEN Ok(FrameVal(stmt_interp.frame))
    ELSE CASE block[i].t = "Return" ->
                  Try(eval_expr(get_expr_interpreter(stmt_interp), block[i].expr),
                      LAMBDA v : BlockLoop(stmt_interp, block, i + 1))
           [] block[i].t = "Block" ->
                  Err(ErrorOther("Error: slides can only be introduced at the top level."))
           [] OTHER ->
                  Try(eval_statement(stmt_interp, block[i]),
                      LAMBDA done : BlockLoop(done.self, block, i + 1))

\* The statement loop of a block that takes a block statement as one more statement.
BlockLoopNestsBlocks(stmt_interp, block, i) ==
    IF i > Len(block) THEN Ok(FrameVal(stmt_interp.frame))
    ELSE CASE block[i].t = "Return" ->
                  eval_expr(get_expr_interpreter(stmt_interp), block[i].expr)
           [] OTHER ->
                  Try(eval_statement(stmt_interp, block[i]),
                      LAMBDA done : BlockLoop(done.self, block, i + 1))

\* The statement loop of eval_block, from statement i on.
BlockLoop(stmt_interp, block, i) ==
    IF i > Len(block) THEN Ok(FrameVal(stmt_interp.frame))
    ELSE CASE block[i].t = "Return" ->
                  eval_expr(get_expr_interpreter(stmt_interp), block[i].expr)
           [] block[i].t = "Block" ->
                  Err(ErrorOther("Error: slides can only be introduced at the top level."))
           [] OTHER ->
                  Try(eval_statement(stmt_interp, block[i]),
                      LAMBDA done : BlockLoop(done.self, block, i + 1))

eval_block(self, block) ==
    BlockLoop([frame |-> FrameFromEnv(self.env), current_subframe |-> 0], block, 1)

StmtInterpreterNew == [frame |-> FrameNew, current_subframe |-> 0]

\* The Ok result of a statement: the interpreter after it and the frame it made.
Done(self, maybe_frame) == Ok([self |-> self, frame |-> maybe_frame])

\* A top-level block works on the enclosing environment itself.
eval_statement_shares_env(self, stmt) ==
    CASE stmt.t = "Import" -> Done(self, None)
      [] stmt.t = "Assign" -> eval_assign(self, stmt)
      [] stmt.t = "Return" ->
            Err(ErrorOther("Syntax error: 'return' cannot be used here."))
      [] stmt.t = "Block" ->
            Try(eval_block(get_expr_interpreter(self), stmt.block), LAMBDA v :
                IF v.type = "Frame"
                THEN Done([self EXCEPT !.frame.env = v.frame.env], Some(v.frame))
                ELSE Err(ErrorOther("Type error: top-level blocks must evaluate to frames")))
      [] stmt.t = "PutAt" -> eval_put_at(self, stmt)

eval_statement(self, stmt) ==
    CASE stmt.t = "Import" -> Done(self, None)
      [] stmt.t = "Assign" -> eval_assign(self, stmt)
      [] stmt.t = "Return" ->
            Err(ErrorOther("Syntax error: 'return' cannot be used here."))
      [] stmt.t = "Block" ->
            Try(eval_block(get_expr_interpreter(self), stmt.block), LAMBDA v :
                IF v.type = "Frame" THEN Done(self, Some(v.frame))
                ELSE Err(ErrorOther("Type error: top-level blocks must evaluate to frames")))
      [] stmt.t = "PutAt" -> eval_put_at(self, stmt)

eval_assign(self, stmt) ==
    Try(eval_expr(get_expr_interpreter(self), stmt.expr), LAMBDA value :
        Done([self EXCEPT !.frame = FramePutInEnv(self.frame, stmt.target, value)], None))

\* A placement that also moves the frame bound to the name that was placed.
eval_put_at_moves_content(self, put_at) ==
    Try(eval_expr(get_expr_interpreter(self), put_at.frame), LAMBDA content :
        IF content.type # "Frame"
        THEN Err(ErrorOther("Cannot place <TODO>. Only frames can be placed."))
        ELSE Try(eval_expr(get_expr_interpreter(self), put_at.pos), LAMBDA pos :
                 IF ~(pos.type = "Coord" /\ pos.dim = 1)
                 THEN Err(ErrorOther("Placement requires a coordinate with length units"))
                 ELSE Done([self EXCEPT !.frame =
                               [Placed(self.frame, self.current_subframe,
                                       content.frame, Vec2(pos.x, pos.y))
                                EXCEPT !.env =
                                    IF put_at.frame.t = "Idents" /\ Len(put_at.frame.idents) = 1
                                    THEN EnvPut(@, put_at.frame.idents[1],
                                             FrameVal(FrameSetAnchor(content.frame,
                                                 Vec2Add(content.frame.anchor, Vec2(pos.x, pos.y)))))
                                    ELSE @]],
                           None)))

eval_put_at(self, put_at) ==
    Try(eval_expr(get_expr_interpreter(self), put_at.frame), LAMBDA content :
        IF content.type # "Frame"
        THEN Err(ErrorOther("Cannot place <TODO>. Only frames can be placed."))
        ELSE Try(eval_expr(get_expr_interpreter(self), put_at.pos), LAMBDA pos :
                 IF ~(pos.type = "Coord" /\ pos.dim = 1)
                 THEN Err(ErrorOther("Placement requires a coordinate with length units"))
                 ELSE Done([self EXCEPT !.frame =
                               Placed(self.frame, self.current_subframe,
                                      content.frame, Vec2(pos.x, pos.y))],
                           None)))

(***************************************************************************)
(* Spec: main() of bin/pris.rs evaluating the statements of a document one *)
(* by one with the top-level statement interpreter.  The statements are    *)
(* drawn from a bounded set of syntax trees.                               *)
(***************************************************************************)
MaxStatements == 2
MaxLit == 2

Units == {"None", "W", "H", "Em", "Pt"}
LitValues == {R(n) : n \in 1..MaxLit} \cup {Rat(1, 2)}
Literals == {TermNumber(x, u) : x \in LitValues, u \in Units}

Var(name) == TermIdents(<<name>>)
Pt(n) == TermNumber(R(n), "Pt")
Em(n) == TermNumber(R(n), "Em")
Origin == TermCoord(Pt(0), Pt(0))
LineTerm == TermFnCall(Var("line"), <<TermCoord(Pt(1), Pt(2))>>)

\* Blocks that assign to a new name, to a name bound outside, or place.
InnerBlocks ==
    { <<StmtAssign("y", Pt(2))>>,
      <<StmtAssign("font_size", Pt(2))>>,
      <<StmtAssign("font_size", Pt(2)), StmtAssign("y", Em(1))>>,
      <<StmtAssign("x", TermString("a")), StmtPutAt(LineTerm, Origin)>>,
      <<>> }

\* A block as an expression, and as the body of a function that is called.
BlockExprs ==
    {TermBlock(b) : b \in InnerBlocks}
        \cup {TermFnCall(TermFnDef(<<>>, b), <<>>) : b \in InnerBlocks}
        \cup {TermFnCall(TermFnDef(<<"y">>, b), <<Pt(1)>>) : b \in InnerBlocks}

\* x = { y = 1pt; z = <inner>; return (y, font_size) }
ScopeProbe(inner) ==
    StmtAssign("x", TermBlock(<<StmtAssign("y", Pt(1)), StmtAssign("z", inner),
                                StmtReturn(TermCoord(Var("y"), Var("font_size")))>>))

\* z = { <first>; f = function(p) { q = p; return x }; x = 2pt; r = f(3pt) }
CallProbe(first) ==
    StmtAssign("z", TermBlock(first \o
        <<StmtAssign("f", TermFnDef(<<"p">>, <<StmtAssign("q", Var("p")), StmtReturn(Var("x"))>>)),
          StmtAssign("x", Pt(2)),
          StmtAssign("r", TermFnCall(Var("f"), <<Pt(3)>>))>>))
CallProbes == {CallProbe(<<>>), CallProbe(<<StmtAssign("x", Pt(1))>>)}

\* Expressions and a placement that use the frame bound to a name.
Fit(frame) == TermFnCall(Var("fit"), <<frame, TermCoord(Pt(1), Pt(1))>>)
Adj(lhs, rhs) == TermBinOp(lhs, "Adj", rhs)
PutAside(frame) == StmtPutAt(frame, TermCoord(Pt(1), Pt(1)))

\* z = { a = { put line((1pt, 2pt)) at (0pt, 0pt) }; b = a ~ a; c = fit(a, (1pt, 1pt));
\*       put a at (1pt, 1pt); put a ~ a at (1pt, 1pt) }
FrameProbe ==
    StmtAssign("z", TermBlock(
        <<StmtAssign("a", TermBlock(<<StmtPutAt(LineTerm, Origin)>>)),
          StmtAssign("b", Adj(Var("a"), Var("a"))),
          StmtAssign("c", Fit(Var("a"))),
          PutAside(Var("a")),
          PutAside(Adj(Var("a"), Var("a")))>>))

\* z = { y = 1pt; put line((1pt, 2pt)) at (0pt, 0pt); return y; <rest> }
ReturnProbe(rest) ==
    StmtAssign("z", TermBlock(
        <<StmtAssign("y", Pt(1)), StmtPutAt(LineTerm, Origin), StmtReturn(Var("y"))>> \o rest))
ReturnProbes ==
    {ReturnProbe(rest) : rest \in {<<>>, <<StmtAssign("y", Pt(2))>>, <<StmtReturn(Pt(2))>>,
                                   <<StmtAssign("y", Var("nothing"))>>}}

\* Blocks and a function body with a block statement directly inside.
NestedBlockProbes ==
    {StmtBlock(<<StmtBlock(<<>>)>>),
     StmtAssign("x", TermBlock(<<StmtAssign("y", Pt(1)), StmtBlock(<<>>),
                                 StmtAssign("y", Var("nothing"))>>)),
     StmtAssign("x", TermFnCall(TermFnDef(<<>>, <<StmtBlock(<<>>), StmtReturn(Pt(1))>>), <<>>))}
\* x = { y = nothing; { } }
FailsBeforeNestedBlock ==
    StmtAssign("x", TermBlock(<<StmtAssign("y", Var("nothing")), StmtBlock(<<>>)>>))

ImportStatements == {StmtImport(<<"std">>)}
AssignStatements ==
    {StmtAssign(t, e) : t \in {"x", "font_size"}, e \in Literals}
        \cup {StmtAssign("font_size", TermString("a")),
              StmtAssign("canvas_size", TermString("a"))}
        \cup {StmtAssign(t, e) : t \in {"x", "y"}, e \in BlockExprs}
        \cup {ScopeProbe(e) : e \in BlockExprs}
        \cup CallProbes
        \cup ReturnProbes
        \cup (NestedBlockProbes \ {StmtBlock(<<StmtBlock(<<>>)>>)})
        \cup {FailsBeforeNestedBlock}
        \cup {FrameProbe, StmtAssign("y", Adj(Var("x"), Var("x"))), StmtAssign("y", Fit(Var("x")))}
        \cup {StmtAssign("x", TermFnCall(Var("x"), <<>>)),
              StmtAssign("x", TermBinOp(Em(1), "Add", Pt(1))),
              StmtAssign("y", TermUnOp("Neg", TermCoord(Var("x"), Em(1))))}
ReturnStatements == {StmtReturn(Pt(1))}
BlockStatements ==
    {StmtBlock(b) : b \in InnerBlocks}
        \cup {StmtBlock(<<StmtBlock(<<>>)>>), StmtBlock(<<StmtReturn(Pt(1))>>),
              StmtBlock(<<StmtAssign("y", Var("x"))>>),
              StmtBlock(<<StmtAssign("y", Var("nothing"))>>)}
PutAtStatements ==
    {StmtPutAt(e, Origin) : e \in BlockExprs}
        \cup {StmtPutAt(LineTerm, TermCoord(Em(1), Pt(1))),
              StmtPutAt(LineTerm, TermCoord(Pt(1), TermNumber(R(1), "None"))),
              StmtPutAt(Pt(1), Origin),
              PutAside(Var("x"))}

Init ==
    /\ stmt_interpreter = StmtInterpreterNew
    /\ frames = <<>>
    /\ outcome = [index |-> 0]
    /\ aborted = FALSE
    /\ canvas_size = Pending
    /\ painted = <<>>
    /\ printed = <<>>
    /\ call = Idle /\ ret = Idle
    /\ lexer = Idle /\ lex_result = Idle
    /\ parser = Idle /\ parse_result = Idle /\ statements = Idle

\* One iteration of the statement loop of main() that goes on after an error.
MainLoopContinuesAfterError(statement) ==
    /\ aborted = FALSE
    /\ canvas_size = Pending
    /\ outcome.index < MaxStatements
    /\ \E result \in {eval_statement(stmt_interpreter, statement)} :
           /\ outcome' = [index |-> outcome.index + 1, stmt |-> statement,
                          result |-> IF result.ok THEN Ok(result.val.frame) ELSE result]
           /\ IF result.ok
              THEN /\ stmt_interpreter' = result.val.self
                   /\ frames' = IF result.val.frame.some
                                THEN Append(frames, result.val.frame.val) ELSE frames
                   /\ printed' = printed
              ELSE /\ printed' = Append(printed, result.err)
                   /\ UNCHANGED <<stmt_interpreter, frames>>
    /\ UNCHANGED <<aborted, canvas_size, painted, opsVars, lexVars, parseVars>>

\* One iteration of the statement loop of main() that puts the new frame first.
MainLoopNewestFrameFirst(statement) ==
    /\ aborted = FALSE
    /\ canvas_size = Pending
    /\ outcome.index < MaxStatements
    /\ \E result \in {eval_statement(stmt_interpreter, statement)} :
           /\ outcome' = [index |-> outcome.index + 1, stmt |-> statement,
                          result |-> IF result.ok THEN Ok(result.val.frame) ELSE result]
           /\ IF result.ok
              THEN /\ stmt_interpreter' = result.val.self
                   /\ frames' = IF result.val.frame.some
                                THEN <<result.val.frame.val>> \o frames ELSE frames
                   /\ aborted' = FALSE
                   /\ printed' = printed
              ELSE /\ aborted' = TRUE
                   /\ printed' = Append(printed, result.err)
                   /\ UNCHANGED <<stmt_interpreter, frames>>
    /\ UNCHANGED <<canvas_size, painted, opsVars, lexVars, parseVars>>

\* One iteration of the statement loop of main().
MainLoop(statement) ==
    /\ aborted = FALSE
    /\ canvas_size = Pending
    /\ outcome.index < MaxStatements
    /\ \E result \in {eval_statement(stmt_interpreter, statement)} :
           /\ outcome' = [index |-> outcome.index + 1, stmt |-> statement,
                          result |-> IF result.ok THEN Ok(result.val.frame) ELSE result]
           /\ IF result.ok
              THEN /\ stmt_interpreter' = result.val.self
                   /\ frames' = IF result.val.frame.some
                                THEN Append(frames, result.val.frame.val) ELSE frames
                   /\ aborted' = FALSE
                   /\ printed' = printed
              ELSE /\ aborted' = TRUE
                   /\ printed' = Append(printed, result.err)
                   /\ UNCHANGED <<stmt_interpreter, frames>>
    /\ UNCHANGED <<canvas_size, painted, opsVars, lexVars, parseVars>>

EvalImport == \E s \in ImportStatements : MainLoop(s)
EvalAssign == \E s \in AssignStatements : MainLoop(s)
EvalReturn == \E s \in ReturnStatements : MainLoop(s)
EvalBlock == \E s \in BlockStatements : MainLoop(s)
EvalPutAt == \E s \in PutAtStatements : MainLoop(s)

\* The statements are over: main() looks the canvas size up in the top-level
\* environment.
LookupCanvasSize ==
    /\ aborted = FALSE
    /\ canvas_size = Pending
    /\ \E result \in {EnvLookupCoordNum(stmt_interpreter.frame.env, <<"canvas_size">>)} :
           IF result.ok
           THEN /\ canvas_size' = result.val
                /\ UNCHANGED <<aborted, printed>>
           ELSE /\ aborted' = TRUE
                /\ printed' = Append(printed, result.err)
                /\ UNCHANGED canvas_size
    /\ UNCHANGED <<stmt_interpreter, frames, outcome, painted, opsVars, lexVars, parseVars>>

\* One iteration of the loop of main() that hands the frames to the driver.
PaintFrame ==
    /\ aborted = FALSE
    /\ canvas_size # Pending
    /\ Len(painted) < Len(frames)
    /\ painted' = Append(painted, frames[Len(painted) + 1])
    /\ UNCHANGED <<stmt_interpreter, frames, outcome, aborted, canvas_size, printed,
                   opsVars, lexVars, parseVars>>

Next ==
    \/ EvalImport \/ EvalAssign \/ EvalReturn \/ EvalBlock \/ EvalPutAt
    \/ LookupCanvasSize
    \/ PaintFrame

Spec == Init /\ [][Next]_vars

(***************************************************************************)
(* Claims checked under Spec.                                              *)
(***************************************************************************)
\* The bindings of the top-level environment.
TopEnv == stmt_interpreter.frame.env
Evaluated(stmt) == outcome.index > 0 /\ outcome.stmt = stmt
IsLen(v) == v.type = "Num" /\ v.dim = 1

ScopeProbes == {ScopeProbe(e) : e \in BlockExprs}

\* The step is an iteration of the statement loop.
StatementStep == outcome'.index = outcome.index + 1

\* C1: a block evaluated inside an enclosing scope (a top-level block
\* statement, a block expression, the body of a called function) leaves the
\* bindings of the enclosing environment as they were: a top-level block or
\* a placement of a block changes no binding, an assignment of a block or of
\* a call changes the binding of its target only, and inside a block the
\* names y and font_size read after an inner block or call still have the
\* values they had before it, whatever the inner block assigned.
C1_BlockLeavesEnclosingEnv ==
    [][StatementStep =>
       LET stmt == outcome'.stmt
           before == stmt_interpreter.frame.env
           after == stmt_interpreter'.frame.env
       IN  /\ aborted' => after = before
           /\ stmt.t \in {"Block", "PutAt"} => after = before
           /\ (stmt.t = "Assign" /\ ~aborted') =>
                 /\ DOMAIN after = DOMAIN before \cup {stmt.target}
                 /\ \A n \in DOMAIN before \ {stmt.target} : after[n] = before[n]
           /\ stmt \in ScopeProbes =>
                 IF IsLen(before["font_size"])
                 THEN /\ ~aborted'
                      /\ after["x"] = Coord(R(1), before["font_size"].x, 1)
                 ELSE aborted'
      ]_vars

\* x = { font_size = 2pt } was evaluated: the frame bound to x has the new
\* font_size, the top-level environment the default one.
C1_Witness ==
    /\ Evaluated(StmtAssign("x", TermBlock(<<StmtAssign("font_size", Pt(2))>>)))
    /\ ~aborted
    /\ TopEnv["x"].frame.env["font_size"] = Num(R(2), 1)
    /\ TopEnv["font_size"] = Num(R(108), 1)

\* C4: a numeric literal is converted when it is evaluated: n gives
\* Num(n, 0), n w gives Num(1920 n, 1), n h gives Num(1080 n, 1), n pt gives
\* Num(n, 1), and n em gives Num(n s, 1) for the length s bound to font_size
\* in the environment of the evaluation (the value assigned last in that
\* scope), or a type error when font_size is not bound to a length.
C4_LiteralConvertedWhenEvaluated ==
    [][StatementStep =>
       LET stmt == outcome'.stmt
           font_size == stmt_interpreter.frame.env["font_size"]
       IN  /\ (stmt.t = "Assign" /\ stmt.expr.t = "Number") =>
                 LET x == stmt.expr.x
                     unit == stmt.expr.unit
                     bound == stmt_interpreter'.frame.env[stmt.target]
                 IN  CASE unit = "None" -> ~aborted' /\ bound = Num(x, 0)
                       [] unit = "W" -> ~aborted' /\ bound = Num(RatMul(R(1920), x), 1)
                       [] unit = "H" -> ~aborted' /\ bound = Num(RatMul(R(1080), x), 1)
                       [] unit = "Pt" -> ~aborted' /\ bound = Num(x, 1)
                       [] unit = "Em" ->
                             IF IsLen(font_size)
                             THEN ~aborted' /\ bound = Num(RatMul(font_size.x, x), 1)
                             ELSE aborted' /\ outcome'.result.err.kind = "Type"
           /\ stmt = StmtBlock(<<StmtAssign("font_size", Pt(2)), StmtAssign("y", Em(1))>>) =>
                 /\ ~aborted'
                 /\ frames'[Len(frames')].env["y"] = Num(R(2), 1)
      ]_vars

\* font_size = 2pt and then x = 0.5em were evaluated: x is 1pt, not 54pt.
C4_Witness ==
    /\ Evaluated(StmtAssign("x", TermNumber(Rat(1, 2), "Em")))
    /\ ~aborted
    /\ TopEnv["font_size"] = Num(R(2), 1)
    /\ TopEnv["x"] = Num(R(1), 1)

\* The statement evaluated last returned an error.
StatementFailed == outcome.index > 0 /\ ~outcome.result.ok

\* C13: the first error a statement returns ends the run: that error and no
\* other has been printed, no frame has been handed to the driver (not even
\* the frames of the top-level blocks before the failing statement), and no
\* step follows; frames are painted only after the statement loop is over,
\* and no statement is evaluated once the canvas size has been looked up.
C13_FirstErrorEndsRun ==
    /\ [](StatementFailed =>
             /\ printed = <<outcome.result.err>>
             /\ painted = <<>>
             /\ canvas_size = Pending)
    /\ [](painted # <<>> => (canvas_size # Pending /\ ~StatementFailed))
    /\ [][~StatementFailed /\ (canvas_size # Pending => ~StatementStep)]_vars

\* A top-level block completed a frame, the next statement failed: one error
\* printed, nothing painted.
C13_Witness ==
    /\ StatementFailed
    /\ outcome.index = 2
    /\ Len(frames) = 1
    /\ Len(printed) = 1
    /\ painted = <<>>

\* The names a block assigns to.
Targets(block) == {block[i].target : i \in {j \in 1..Len(block) : block[j].t = "Assign"}}

\* C14: a top-level block statement that evaluates appends exactly one frame
\* to the frames of the document, after the frames of the earlier blocks; an
\* import, an assignment and a placement append none.  The block is evaluated
\* in a copy of the top-level environment of that moment: the bindings of its
\* frame are those of the top-level environment but for the names the block
\* assigns to, the block reads the value an earlier top-level assignment gave
\* to x, the top-level environment stays as it was, and no later statement
\* changes a frame that was completed.
C14_OneFramePerTopLevelBlock ==
    [][StatementStep =>
       LET stmt == outcome'.stmt
           before == stmt_interpreter.frame.env
           after == stmt_interpreter'.frame.env
           frame == frames'[Len(frames')]
       IN  /\ IF stmt.t = "Block" /\ ~aborted'
              THEN /\ frames' = Append(frames, frame)
                   /\ after = before
                   /\ DOMAIN frame.env = DOMAIN before \cup Targets(stmt.block)
                   /\ \A n \in DOMAIN before \ Targets(stmt.block) : frame.env[n] = before[n]
              ELSE frames' = frames
           /\ stmt = StmtBlock(<<StmtAssign("y", Var("x"))>>) =>
                 IF "x" \in DOMAIN before
                 THEN ~aborted' /\ frame.env["y"] = before["x"]
                 ELSE aborted'
      ]_vars

\* x = 1 and then { y = x } were evaluated: the one frame has y = 1, the
\* top-level environment has no y.
C14_Witness ==
    /\ Evaluated(StmtBlock(<<StmtAssign("y", Var("x"))>>))
    /\ ~aborted
    /\ Len(frames) = 1
    /\ frames[1].env["y"] = Num(R(1), 0)
    /\ TopEnv["x"] = Num(R(1), 0)
    /\ "y" \notin DOMAIN TopEnv

\* C15: the body of a user-defined function is evaluated in a copy of the
\* environment of the call extended with the parameters, not in the
\* environment of the definition: a function defined while x is 1pt, or not
\* bound at all, and called after x = 2pt returns 2pt for x; the parameter p
\* and the name q the body assigns to are not bound in the environment of
\* the caller after the call, and x there is still 2pt.
C15_BodySeesCallSiteEnv ==
    [][(StatementStep /\ outcome'.stmt \in CallProbes) =>
       /\ ~aborted'
       /\ LET env == stmt_interpreter'.frame.env["z"].frame.env
              before == stmt_interpreter.frame.env
          IN  /\ env["r"] = Num(R(2), 1)
              /\ env["x"] = Num(R(2), 1)
              /\ env["f"].type = "FnExtrin"
              /\ DOMAIN env = DOMAIN before \cup {"f", "x", "r"}
      ]_vars

\* The function was defined while x was 1pt and called after x = 2pt.
C15_Witness ==
    /\ Evaluated(CallProbe(<<StmtAssign("x", Pt(1))>>))
    /\ ~aborted
    /\ TopEnv["z"].frame.env["r"] = Num(R(2), 1)
    /\ "q" \notin DOMAIN TopEnv["z"].frame.env

\* C17: a frame is not changed once it is constructed.  A step of the
\* statement loop leaves every name that is bound to a frame bound to the
\* same frame, unless the statement assigns to that name: y = x ~ x,
\* y = fit(x, (1pt, 1pt)) and put x at (1pt, 1pt) leave x as it was.  Inside
\* a block, a is the same frame after b = a ~ a, c = fit(a, (1pt, 1pt)),
\* put a at (1pt, 1pt) and put a ~ a at (1pt, 1pt) as it was constructed,
\* while b and c are other frames.
C17_FramesNeverChange ==
    [][StatementStep =>
       LET stmt == outcome'.stmt
           before == stmt_interpreter.frame.env
           after == stmt_interpreter'.frame.env
       IN  /\ \A n \in DOMAIN before :
                 (before[n].type = "Frame" /\ ~(stmt.t = "Assign" /\ stmt.target = n /\ ~aborted')) =>
                     (n \in DOMAIN after /\ after[n] = before[n])
           /\ stmt = FrameProbe =>
                 /\ ~aborted'
                 /\ LET env == after["z"].frame.env
                        a == eval_expr([env |-> before], TermBlock(<<StmtPutAt(LineTerm, Origin)>>))
                    IN  /\ env["a"] = a.val
                        /\ env["b"].frame.anchor = Vec2Add(a.val.frame.anchor, a.val.frame.anchor)
                        /\ env["c"].frame.anchor # a.val.frame.anchor
      ]_vars

\* x is bound to a frame with a line and was placed at (1pt, 1pt): the
\* top-level frame holds the line moved, x holds it where it was.
C17_Witness ==
    /\ Evaluated(PutAside(Var("x")))
    /\ ~aborted
    /\ TopEnv["x"].type = "Frame"
    /\ TopEnv["x"].frame.anchor = Vec2(R(1), R(2))
    /\ stmt_interpreter.frame.anchor = Vec2(R(2), R(3))

\* The statements of a block contain a return statement.
HasReturn(block) == \E i \in 1..Len(block) : block[i].t = "Return"

\* C20: the first return statement a block reaches ends the block: the block
\* has the value of the returned expression in the environment of the block
\* at that point, whatever follows the return (an assignment to the name
\* returned, a second return, a statement that would fail) is not evaluated,
\* and the frame the block had built is not the value.  A block without a
\* return statement has its frame as value.  A return statement at the top
\* level is an error.
C20_ReturnEndsBlock ==
    [][StatementStep =>
       LET stmt == outcome'.stmt
           after == stmt_interpreter'.frame.env
       IN  /\ stmt \in ReturnProbes => (~aborted' /\ after["z"] = Num(R(1), 1))
           /\ (stmt.t = "Assign" /\ stmt.expr.t = "Block" /\ ~HasReturn(stmt.expr.block)
                   /\ ~aborted') =>
                 /\ after[stmt.target].type = "Frame"
                 /\ \A i \in 1..Len(stmt.expr.block) :
                        stmt.expr.block[i].t = "Assign" =>
                            stmt.expr.block[i].target \in DOMAIN after[stmt.target].frame.env
           /\ stmt = StmtAssign("x", TermBlock(<<StmtAssign("x", TermString("a")),
                                                 StmtPutAt(LineTerm, Origin)>>)) =>
                 (~aborted' /\ Len(after["x"].frame.subframes) = 1)
           /\ stmt.t = "Return" =>
                 /\ aborted'
                 /\ outcome'.result =
                        Err(ErrorOther("Syntax error: 'return' cannot be used here."))
      ]_vars

\* z = { y = 1pt; put ...; return y; y = 2pt } was evaluated: z is 1pt.
C20_Witness ==
    /\ Evaluated(ReturnProbe(<<StmtAssign("y", Pt(2))>>))
    /\ ~aborted
    /\ TopEnv["z"] = Num(R(1), 1)

\* C21: a block statement directly inside a block or a function body is an
\* error that ends the enclosing block: the statements after it are not
\* evaluated (a failing assignment after it is not reached, a return after
\* it gives no value), the statements before it have been evaluated (a
\* failing assignment before it gives its own error).  A block statement at
\* the top level is legal and gives a frame.
C21_NestedBlockStatementIsError ==
    [][StatementStep =>
       LET stmt == outcome'.stmt
       IN  /\ stmt \in NestedBlockProbes =>
                 /\ aborted'
                 /\ outcome'.result =
                        Err(ErrorOther("Error: slides can only be introduced at the top level."))
           /\ stmt = FailsBeforeNestedBlock =>
                 /\ aborted'
                 /\ outcome'.result = Err(ErrorOther("Variable does not exist."))
           /\ (stmt.t = "Block" /\ stmt.block \in InnerBlocks) =>
                 /\ ~aborted'
                 /\ outcome'.result.val.some
                 /\ frames' = Append(frames, outcome'.result.val.val)
      ]_vars

\* x = { y = 1pt; { }; y = nothing } was evaluated after a top-level block
\* gave a frame: the run ended with the error of the nested block.
C21_Witness ==
    /\ outcome.index = 2
    /\ outcome.stmt = StmtAssign("x", TermBlock(<<StmtAssign("y", Pt(1)), StmtBlock(<<>>),
                                                  StmtAssign("y", Var("nothing"))>>))
    /\ aborted
    /\ Len(frames) = 1
    /\ "x" \notin DOMAIN TopEnv

(***************************************************************************)
(* SpecExpr: ExprInterpreter::eval_expr applied to one expression in an    *)
(* environment, both drawn from bounded sets.                              *)
(***************************************************************************)
MaxArgs == 2

\* Arguments that evaluate to a value and arguments that fail, each with an
\* error of its own: a coordinate of a length and a number, an unbound
\* name, a length plus a number, a call of a length.
GoodArgs == {Pt(1), TermCoord(Pt(1), Pt(2))}
BadArgs ==
    {TermCoord(Pt(1), TermNumber(R(1), "None")),
     Var("nothing"),
     TermBinOp(Pt(1), "Add", TermNumber(R(1), "None")),
     TermFnCall(Pt(1), <<>>)}
ArgLists == UNION {[1..n -> GoodArgs \cup BadArgs] : n \in 0..MaxArgs}

\* Callees: an unbound name, two values that cannot be called, a builtin,
\* two functions, an expression that fails.
Callees ==
    {Var("nothing"), Var("font_size"), Pt(1), Var("line"),
     TermFnDef(<<"p">>, <<StmtReturn(Var("p"))>>),
     TermFnDef(<<>>, <<StmtReturn(Var("font_size"))>>),
     TermCoord(Pt(1), TermNumber(R(1), "None"))}

CallExprs == {TermFnCall(f, args) : f \in Callees, args \in ArgLists}

\* put line((1pt, 2pt)) at (-1pt, -1pt): the box becomes (-1, -1, 1, 2).
PutLine == StmtPutAt(LineTerm, TermCoord(TermUnOp("Neg", Pt(1)), TermUnOp("Neg", Pt(1))))

\* The value of { width = 5pt; offset = "a"; put line((1pt, 2pt)) at (-1pt, -1pt) }.
BoxedFrame ==
    eval_expr(DefaultInterpreter,
              TermBlock(<<StmtAssign("width", Pt(5)), StmtAssign("offset", TermString("a")),
                          PutLine>>)).val

\* Environments: the default one, with a frame bound to a, and with width
\* and size bound as well.
Envs ==
    {EnvNew,
     EnvPut(EnvNew, "a", BoxedFrame),
     EnvPut(EnvPut(EnvPut(EnvNew, "a", BoxedFrame), "width", Num(R(3), 1)),
           "size", Str("s"))}

FieldNames == {"width", "height", "size", "offset"}
Names == FieldNames \cup {"font_size", "nothing", "a"}

\* A name on its own, a field of a, and a field of a field of a.
IdentsExprs ==
    {Var(n) : n \in Names}
        \cup {TermIdents(<<"a", n>>) : n \in Names}
        \cup {TermIdents(<<"a", n, "x">>) : n \in Names}

\* { put line((1pt, 2pt)) at (-1pt, -1pt); <assignments>; return <name> }
BareProbes ==
    {TermBlock(<<PutLine>> \o assigns \o <<StmtReturn(Var(n))>>) :
        assigns \in {<<>>, <<StmtAssign("height", Pt(4))>>}, n \in Names}

InitExpr ==
    /\ call \in {[fn |-> "eval_expr", self |-> DefaultInterpreter, term |-> t] :
                    t \in CallExprs}
                \cup {[fn |-> "eval_expr", self |-> [env |-> env], term |-> t] :
                         env \in Envs, t \in IdentsExprs \cup BareProbes}
    /\ ret = Pending
    /\ lexer = Idle /\ lex_result = Idle
    /\ parser = Idle /\ parse_result = Idle /\ statements = Idle
    /\ stmt_interpreter = Idle /\ frames = Idle /\ outcome = Idle /\ aborted = Idle
    /\ canvas_size = Idle /\ painted = Idle /\ printed = Idle

\* eval_expr on a Term::FnCall.
EvalCallExpr ==
    /\ call.term.t = "FnCall"
    /\ Returns(eval_expr(call.self, call.term))

\* eval_expr on a Term::Idents.
EvalIdentsExpr ==
    /\ call.term.t = "Idents"
    /\ Returns(eval_expr(call.self, call.term))

\* eval_expr on a Term::Block.
EvalBlockExpr ==
    /\ call.term.t = "Block"
    /\ Returns(eval_expr(call.self, call.term))

NextExpr == EvalCallExpr \/ EvalIdentsExpr \/ EvalBlockExpr

SpecExpr == InitExpr /\ [][NextExpr]_vars

\* The arguments of the call that fail when evaluated on their own.
FailingArgs ==
    {i \in 1..Len(call.term.args) : ~eval_expr(call.self, call.term.args[i]).ok}

\* C25: a call with a failing argument returns the error of its leftmost
\* failing argument, whatever the callee is (unbound, not callable, failing,
\* a function); the callee decides the result only when every argument has a
\* value: its own error when it fails, the type error when it is not
\* callable.
C25_ArgumentsBeforeCallee ==
    (call.term.t = "FnCall" /\ ret # Pending) =>
        LET func == eval_expr(call.self, call.term.f)
        IN  IF FailingArgs # {}
            THEN \E i \in FailingArgs :
                    /\ \A j \in FailingArgs : i <= j
                    /\ ret = eval_expr(call.self, call.term.args[i])
            ELSE IF ~func.ok THEN ret = func
            ELSE IF func.val.type \notin {"FnExtrin", "FnIntrin"}
            THEN ret = Err(ErrorOther("Type error: attempting to call value"))
            ELSE ret.ok \/ ret.err.kind \in {"Other", "Arity", "Type"}

\* nothing((1pt, 1), nothing) was evaluated: the callee and the second
\* argument are unbound, the result is the error of the first argument.
C25_Witness ==
    /\ call.term = TermFnCall(Var("nothing"),
                              <<TermCoord(Pt(1), TermNumber(R(1), "None")), Var("nothing")>>)
    /\ ret = Err(ErrorOther("Type error: coord must be (num, num) or (len, len)"))

\* The computed field of a frame with the bounding box bb.
FieldOf(bb, name) ==
    CASE name = "width" -> Num(bb.width, 1)
      [] name = "height" -> Num(bb.height, 1)
      [] name = "size" -> Coord(bb.width, bb.height, 1)
      [] name = "offset" -> Coord(bb.x, bb.y, 1)

\* The box of the block of a BareProbes expression when its return is reached.
ProbeBox == [x |-> R(0 - 1), y |-> R(0 - 1), width |-> R(1), height |-> R(2)]

\* A field name, or a field of a field name, was looked up on the frame a.
FieldOfFrameRead ==
    /\ call.term.t = "Idents" /\ ret # Pending
    /\ Len(call.term.idents) >= 2
    /\ call.term.idents[1] = "a" /\ "a" \in DOMAIN call.self.env
    /\ call.term.idents[2] \in FieldNames

\* The block of a BareProbes expression returned a name.
BareNameRead == call.term.t = "Block" /\ ret # Pending

ReturnedName == call.term.block[Len(call.term.block)].expr.idents[1]

\* The names the block of a BareProbes expression assigns before its return.
AssignedInBlock ==
    {call.term.block[i].target : i \in {j \in 1..Len(call.term.block) :
                                           call.term.block[j].t = "Assign"}}

\* The value of a field read from a frame value: from its bounding box.
FieldRead ==
    FieldOfFrameRead =>
        LET bb == call.self.env["a"].frame.bounding_box
            value == FieldOf(bb, call.term.idents[2])
        IN  /\ bb = ProbeBox
            /\ IF Len(call.term.idents) = 2 THEN ret = Ok(value)
               ELSE IF value.type = "Coord" THEN ret = Ok(Num(value.x, 1))
               ELSE ~ret.ok

\* C27 as stated: the four field names are read from the bounding box, as a
\* field of a frame value and as a bare name in a block.
C27_Original_FieldsBeforeEnv ==
    /\ FieldRead
    /\ (BareNameRead /\ ReturnedName \in FieldNames) =>
           ret = Ok(FieldOf(ProbeBox, ReturnedName))

\* C27: a field of a frame value named width, height, size or offset is
\* computed from the bounding box of that frame, whatever the frame's
\* environment binds; a bare name in a block, these four included, is looked
\* up in the environment only: the value the block or the enclosing
\* environment binds, or the error that the variable does not exist.
C27_FrameFieldsComputedBareNamesFromEnv ==
    /\ FieldRead
    /\ BareNameRead =>
           IF ReturnedName \in AssignedInBlock THEN ret = Ok(Num(R(4), 1))
           ELSE IF ReturnedName \in DOMAIN call.self.env
           THEN ret = Ok(call.self.env[ReturnedName])
           ELSE ret = Err(ErrorOther("Variable does not exist."))

\* a.width was read where a's environment binds width to 5pt and the
\* enclosing environment binds it to 3pt; the block returned width with the
\* box (-1, -1, 1, 2) where the environment binds none.
C27_Witness ==
    \/ /\ FieldOfFrameRead
       /\ call.term.idents = <<"a", "width">>
       /\ call.self.env["a"].frame.env["width"] = Num(R(5), 1)
       /\ "width" \in DOMAIN call.self.env
       /\ ret = Ok(Num(R(1), 1))
    \/ /\ BareNameRead
       /\ ReturnedName = "width"
       /\ "width" \notin DOMAIN call.self.env
       /\ ret = Err(ErrorOther("Variable does not exist."))

(***************************************************************************)
(* lexer.rs.  The input is a sequence of bytes; index i of the source      *)
(* (from 0) is element i + 1 of the sequence.  A token that holds a slice  *)
(* of the input holds the bytes of the slice.                              *)
(***************************************************************************)
ErrorParse(start, end, msg) == [kind |-> "Parse", start |-> start, end |-> end, msg |-> msg]

\* The byte of an ASCII character, as in b'/'.
Byte(c) ==
    CASE c = "\t" -> 9 [] c = "\n" -> 10 [] c = "\r" -> 13 [] c = " " -> 32
      [] c = "\"" -> 34 [] c = "#" -> 35 [] c = "(" -> 40 [] c = ")" -> 41
      [] c = "*" -> 42 [] c = "+" -> 43 [] c = "," -> 44 [] c = "-" -> 45
      [] c = "." -> 46 [] c = "/" -> 47 [] c = "0" -> 48 [] c = "1" -> 49
      [] c = "2" -> 50 [] c = "3" -> 51 [] c = "4" -> 52 [] c = "5" -> 53
      [] c = "6" -> 54 [] c = "8" -> 56
      [] c = "9" -> 57 [] c = "=" -> 61 [] c = "A" -> 65 [] c = "F" -> 70
      [] c = "Z" -> 90 [] c = "\\" -> 92 [] c = "^" -> 94 [] c = "_" -> 95
      [] c = "a" -> 97 [] c = "c" -> 99 [] c = "d" -> 100 [] c = "e" -> 101 [] c = "f" -> 102
      [] c = "h" -> 104 [] c = "i" -> 105 [] c = "m" -> 109 [] c = "n" -> 110
      [] c = "o" -> 111 [] c = "p" -> 112 [] c = "r" -> 114 [] c = "t" -> 116
      [] c = "u" -> 117 [] c = "w" -> 119 [] c = "x" -> 120 [] c = "z" -> 122 [] c = "{" -> 123
      [] c = "}" -> 125 [] c = "~" -> 126

\* A byte string literal, as in b"--".
Bytes(chars) == [k \in 1..Len(chars) |-> Byte(chars[k])]

Token(kind) == [kind |-> kind]
TokenStr(kind, inner) == [kind |-> kind, inner |-> inner]
Span(start, end) == [start |-> start, end |-> end]

LexerNew(input) == [input |-> input, start |-> 0, state |-> "Base", tokens |-> <<>>]

At(self, i) == self.input[i + 1]
Slice(input, start, past_end) == SubSeq(input, start + 1, past_end)

has_at(self, at_, expected) ==
    /\ at_ + Len(expected) <= Len(self.input)
    /\ \A k \in 1..Len(expected) : self.input[at_ + k] = expected[k]

push_from(self, start, token, end) ==
    [self EXCEPT !.tokens = Append(@, <<token, Span(start, end)>>)]

\* The token is pushed with a span from the start of the input.
push_from_input_start(self, token, end) == push_from(self, 0, token, end)

push(self, token, end) == push_from(self, self.start, token, end)

push_single(self, at_, token) ==
    [push_from(self, at_, token, at_ + 1) EXCEPT !.start = at_ + 1]

\* What a state handler returns: the lexer as it left it, and the new values
\* for self.start and self.state.
change_state(self, at_, state) == Ok([self |-> self, start |-> at_, state |-> state])
done_at_end_of_input(self) == Ok([self |-> self, start |-> 0, state |-> "Done"])

is_alphabetic(byte) ==
    (Byte("a") <= byte /\ byte <= Byte("z")) \/ (Byte("A") <= byte /\ byte <= Byte("Z"))
is_alphabetic_or_underscore(byte) == is_alphabetic(byte) \/ byte = Byte("_")
is_alphanumeric_or_underscore(byte) ==
    is_alphabetic_or_underscore(byte) \/ (Byte("0") <= byte /\ byte <= Byte("9"))
is_digit(byte) == Byte("0") <= byte /\ byte <= Byte("9")
is_hexadecimal(byte) ==
    \/ is_digit(byte)
    \/ (Byte("a") <= byte /\ byte <= Byte("f"))
    \/ (Byte("A") <= byte /\ byte <= Byte("F"))

make_keyword_or_ident(ident) ==
    IF ident = Bytes(<<"a", "t">>) THEN Token("KwAt")
    ELSE IF ident = Bytes(<<"f", "u", "n", "c", "t", "i", "o", "n">>) THEN Token("KwFunction")
    ELSE IF ident = Bytes(<<"i", "m", "p", "o", "r", "t">>) THEN Token("KwImport")
    ELSE IF ident = Bytes(<<"p", "u", "t">>) THEN Token("KwPut")
    ELSE IF ident = Bytes(<<"r", "e", "t", "u", "r", "n">>) THEN Token("KwReturn")
    ELSE TokenStr("Ident", ident)

\* The message depends on the byte; the span is one byte.
make_parse_error(at_, input) ==
    ErrorParse(at_, at_ + 1,
        IF input[1] = Byte("\t") THEN "Found tab character. Please use spaces instead."
        ELSE IF input[1] = Byte("\r")
        THEN "Found carriage return. Please use Unix line endings instead."
        ELSE IF input[1] < 32 \/ input[1] = 127 THEN "Unexpected control character."
        ELSE IF input[1] < 127 THEN "Unexpected character."
        ELSE "Unexpected byte or non-ASCII character.")

StartsWith(input, prefix) ==
    Len(prefix) <= Len(input) /\ SubSeq(input, 1, Len(prefix)) = prefix

make_encoding_error(at_, input) ==
    IF StartsWith(input, <<239, 187, 191>>)
    THEN ErrorParse(at_, at_ + 3, "Found UTF-8 byte order mark. Please remove it.")
    ELSE IF StartsWith(input, <<254, 255>>) \/ StartsWith(input, <<255, 254>>)
    THEN ErrorParse(at_, at_ + 2, "Expected UTF-8 encoded file, but found UTF-16 byte order mark.")
    ELSE IF StartsWith(input, <<0, 0, 254, 255>>) \/ StartsWith(input, <<255, 254, 0, 0>>)
    THEN ErrorParse(at_, at_ + 4, "Expected UTF-8 encoded file, but found UTF-32 byte order mark.")
    ELSE make_parse_error(at_, input)

\* Lexer::parse_utf8_str: the slice from self.start, or an error at the first
\* byte that is not valid UTF-8.  The inputs of the model hold no multi-byte
\* sequence, so a byte is valid when it is ASCII.
parse_utf8_str(self, start, past_end) ==
    LET inner_slice == Slice(self.input, self.start, past_end)
        invalid == {k \in 1..Len(inner_slice) : inner_slice[k] >= 128}
    IN  IF invalid = {} THEN Ok(inner_slice)
        ELSE LET off == (CHOOSE k \in invalid : \A j \in invalid : k <= j) - 1
             IN  Err(ErrorParse(start + off, past_end,
                                "String literal contains invalid UTF-8."))

SingleTokens ==
    <<<<",", "Comma">>, <<".", "Dot">>, <<"=", "Equals">>, <<"^", "Hat">>,
      <<"-", "Minus">>, <<"+", "Plus">>, <<"/", "Slash">>, <<"*", "Star">>,
      <<"~", "Tilde">>, <<"(", "LParen">>, <<")", "RParen">>, <<"{", "LBrace">>,
      <<"}", "RBrace">>>>

SingleToken(byte) ==
    LET k == CHOOSE k \in 1..Len(SingleTokens) : Byte(SingleTokens[k][1]) = byte
    IN  Token(SingleTokens[k][2])

IsSingleToken(byte) == \E k \in 1..Len(SingleTokens) : Byte(SingleTokens[k][1]) = byte

\* The loop of lex_base from index i on.
RECURSIVE LexBaseLoop(_, _)
LexBaseLoop(self, i) ==
    IF i >= Len(self.input) THEN done_at_end_of_input(self)
    ELSE IF At(self, i) = Byte("/") /\ has_at(self, i + 1, Bytes(<<"/">>))
    THEN change_state(self, i, "InComment")
    ELSE IF At(self, i) = Byte("-") /\ has_at(self, i + 1, Bytes(<<"-", "-">>))
    THEN change_state(self, i, "InRawString")
    ELSE IF At(self, i) = Byte("\"") THEN change_state(self, i, "InString")
    ELSE IF At(self, i) \in {Byte(" "), Byte("\n")} THEN change_state(self, i, "Space")
    ELSE IF At(self, i) = Byte("#") THEN change_state(self, i, "InColor")
    ELSE IF is_alphabetic_or_underscore(At(self, i)) THEN change_state(self, i, "InIdent")
    ELSE IF is_digit(At(self, i)) THEN change_state(self, i, "InNumber")
    ELSE IF IsSingleToken(At(self, i))
    THEN LexBaseLoop(push_single(self, i, SingleToken(At(self, i))), i + 1)
    ELSE IF At(self, i) \in {239, 254, 255, 0}
    THEN Err(make_encoding_error(i, Slice(self.input, i, Len(self.input))))
    ELSE Err(make_parse_error(i, Slice(self.input, i, Len(self.input))))

lex_base(self) == LexBaseLoop(self, self.start)

\* The loop of lex_color from index i on.
RECURSIVE LexColorLoop(_, _)
LexColorLoop(self, i) ==
    IF i >= Len(self.input)
    THEN IF self.start + 7 = Len(self.input)
         THEN done_at_end_of_input(
                  push(self, TokenStr("Color",
                           parse_utf8_str(self, self.start, Len(self.input)).val),
                       Len(self.input)))
         ELSE Err(ErrorParse(self.start, Len(self.input),
                             "Expected six hexadecimal digits, but input ended."))
    ELSE IF i < self.start + 7 /\ is_hexadecimal(At(self, i))
    THEN LexColorLoop(self, i + 1)
    ELSE IF i < self.start + 7
    THEN Err(ErrorParse(self.start, i + 1, "Expected hexadecimal digit."))
    ELSE IF i = self.start + 7 /\ is_hexadecimal(At(self, i))
    THEN Err(ErrorParse(self.start, i + 1,
                        "Expected only six hexadecimal digits, found one more."))
    ELSE IF i = self.start + 7 /\ is_alphanumeric_or_underscore(At(self, i))
    THEN Err(ErrorParse(self.start, i + 1, "Expected six hexadecimal digits, found extra."))
    ELSE change_state(
             push(self, TokenStr("Color", parse_utf8_str(self, self.start, i).val), i),
             i, "Base")

lex_color(self) == LexColorLoop(self, self.start + 1)

\* The loop of lex_comment from index i on.
RECURSIVE LexCommentLoop(_, _)
LexCommentLoop(self, i) ==
    IF i >= Len(self.input) THEN done_at_end_of_input(self)
    ELSE IF At(self, i) = Byte("\n") THEN change_state(self, i + 1, "Space")
    ELSE LexCommentLoop(self, i + 1)

lex_comment(self) == LexCommentLoop(self, self.start + 2)

\* The loop of lex_ident: the first index from i on that holds no
\* alphanumeric byte or underscore, or the length of the input.
RECURSIVE IdentEnd(_, _)
IdentEnd(self, i) ==
    IF i >= Len(self.input) THEN Len(self.input)
    ELSE IF ~is_alphanumeric_or_underscore(At(self, i)) THEN i
    ELSE IdentEnd(self, i + 1)

\* The identifier token reaches one byte past its end.
lex_ident_span_past_end(self) ==
    LET i == IdentEnd(self, self.start + 1)
        inner == parse_utf8_str(self, self.start, i).val
    IN  IF i < Len(self.input)
        THEN change_state(push(self, make_keyword_or_ident(inner), i + 1), i, "Base")
        ELSE done_at_end_of_input(push(self, make_keyword_or_ident(inner), i))

lex_ident(self) ==
    LET i == IdentEnd(self, self.start + 1)
        inner == parse_utf8_str(self, self.start, i).val
    IN  IF i < Len(self.input)
        THEN change_state(push(self, make_keyword_or_ident(inner), i), i, "Base")
        ELSE done_at_end_of_input(push(self, make_keyword_or_ident(inner), i))

\* The Number token up to index i, pushed by every arm of lex_number.
PushNumber(self, i) ==
    push(self, TokenStr("Number", parse_utf8_str(self, self.start, i).val), i)

\* The loop of lex_number from index i on.
RECURSIVE LexNumberLoop(_, _, _)
LexNumberLoop(self, i, period_seen) ==
    IF i >= Len(self.input)
    THEN done_at_end_of_input(PushNumber(self, Len(self.input)))
    ELSE IF is_digit(At(self, i)) THEN LexNumberLoop(self, i + 1, period_seen)
    ELSE IF At(self, i) = Byte(".") /\ ~period_seen THEN LexNumberLoop(self, i + 1, TRUE)
    ELSE IF At(self, i) = Byte("e") /\ has_at(self, i + 1, Bytes(<<"m">>))
    THEN change_state(push_from(PushNumber(self, i), i, Token("UnitEm"), i + 2),
                      i + 2, "Base")
    ELSE IF At(self, i) = Byte("p") /\ has_at(self, i + 1, Bytes(<<"t">>))
    THEN change_state(push_from(PushNumber(self, i), i, Token("UnitPt"), i + 2),
                      i + 2, "Base")
    ELSE IF At(self, i) = Byte("h")
    THEN change_state(push_single(PushNumber(self, i), i, Token("UnitH")), i + 1, "Base")
    ELSE IF At(self, i) = Byte("w")
    THEN change_state(push_single(PushNumber(self, i), i, Token("UnitW")), i + 1, "Base")
    ELSE change_state(PushNumber(self, i), i, "Base")

lex_number(self) == LexNumberLoop(self, self.start + 1, FALSE)

\* The loop of lex_raw_string from index i on.
RECURSIVE LexRawStringLoop(_, _)
LexRawStringLoop(self, i) ==
    IF i >= Len(self.input)
    THEN Err(ErrorParse(self.start, self.start + 3,
                        "Raw string was not closed with '---' before end of input."))
    ELSE IF At(self, i) = Byte("-") /\ has_at(self, i + 1, Bytes(<<"-", "-">>))
    THEN Try(parse_utf8_str(self, self.start, i + 3), LAMBDA inner :
             change_state(push(self, TokenStr("RawString", inner), i + 3), i + 3, "Base"))
    ELSE LexRawStringLoop(self, i + 1)

lex_raw_string(self) == LexRawStringLoop(self, self.start + 3)

\* The loop of lex_string from index i on.
RECURSIVE LexStringLoop(_, _, _)
LexStringLoop(self, i, skip_next) ==
    IF i >= Len(self.input)
    THEN Err(ErrorParse(self.start, self.start + 1,
                        "String was not closed with '\"' before end of input."))
    ELSE IF skip_next THEN LexStringLoop(self, i + 1, FALSE)
    ELSE IF At(self, i) = Byte("\\") THEN LexStringLoop(self, i + 1, TRUE)
    ELSE IF At(self, i) = Byte("\"")
    THEN Try(parse_utf8_str(self, self.start, i + 1), LAMBDA inner :
             change_state(push(self, TokenStr("String", inner), i + 1), i + 1, "Base"))
    ELSE LexStringLoop(self, i + 1, FALSE)

lex_string(self) == LexStringLoop(self, self.start + 1, FALSE)

RECURSIVE LexSpaceLoop(_, _)

\* The loop of lex_space that hands the cursor back where it got it.
LexSpaceLoopKeepsCursor(self, i) ==
    IF i >= Len(self.input) THEN done_at_end_of_input(self)
    ELSE IF At(self, i) \in {Byte(" "), Byte("\n")} THEN LexSpaceLoop(self, i + 1)
    ELSE IF At(self, i) \in {Byte("\t"), Byte("\r")}
    THEN Err(make_parse_error(i, Slice(self.input, i, Len(self.input))))
    ELSE change_state(self, self.start, "Base")

\* The loop of lex_space with the tab and the carriage return as whitespace.
LexSpaceLoopSkipsTabs(self, i) ==
    IF i >= Len(self.input) THEN done_at_end_of_input(self)
    ELSE IF At(self, i) \in {Byte(" "), Byte("\n"), Byte("\t"), Byte("\r")}
    THEN LexSpaceLoop(self, i + 1)
    ELSE change_state(self, i, "Base")

\* The loop of lex_space from index i on.
LexSpaceLoop(self, i) ==
    IF i >= Len(self.input) THEN done_at_end_of_input(self)
    ELSE IF At(self, i) \in {Byte(" "), Byte("\n")} THEN LexSpaceLoop(self, i + 1)
    ELSE IF At(self, i) \in {Byte("\t"), Byte("\r")}
    THEN Err(make_parse_error(i, Slice(self.input, i, Len(self.input))))
    ELSE change_state(self, i, "Base")

lex_space(self) == LexSpaceLoop(self, self.start)

\* The handler of the state the lexer is in.
Handler(self) ==
    CASE self.state = "Base" -> lex_base(self)
      [] self.state = "InColor" -> lex_color(self)
      [] self.state = "InComment" -> lex_comment(self)
      [] self.state = "InIdent" -> lex_ident(self)
      [] self.state = "InNumber" -> lex_number(self)
      [] self.state = "InRawString" -> lex_raw_string(self)
      [] self.state = "InString" -> lex_string(self)
      [] self.state = "Space" -> lex_space(self)

\* One iteration of the loop of Lexer::run in a state other than Done: the
\* lexer with the start and the state that the handler returned.
RunStep(result) ==
    Try(result, LAMBDA next :
        Ok([next.self EXCEPT !.start = next.start, !.state = next.state]))

RECURSIVE run(_)
run(self) ==
    IF self.state = "Done" THEN Ok(self.tokens)
    ELSE Try(RunStep(Handler(self)), LAMBDA next : run(next))

lex(input) == run(LexerNew(input))

(***************************************************************************)
(* SpecLex: Lexer::run on an input put together from a few fragments, one  *)
(* action for each state of the lexer.                                     *)
(***************************************************************************)
MaxFragments == 3

Fragments ==
    {Bytes(f) : f \in {<<"/">>, <<"-">>, <<"-", "-", "-">>, <<"\"">>, <<"\\", "\"">>,
                       <<" ">>, <<"\n">>, <<"#", "a", "1", "a", "1", "a">>, <<"1">>,
                       <<".">>, <<"a">>, <<"e", "m">>, <<"p", "t">>, <<"h">>, <<"w">>,
                       <<"a", "t">>, <<"\t">>, <<"+">>, <<"\r">>,
                       <<"/", "/">>}}

RECURSIVE InputsOf(_)
InputsOf(n) ==
    IF n = 0 THEN {<<>>}
    ELSE InputsOf(n - 1) \cup {i \o f : i \in InputsOf(n - 1), f \in Fragments}

Inputs == InputsOf(MaxFragments)

InitLex ==
    /\ lexer \in {LexerNew(input) : input \in Inputs}
    /\ lex_result = Pending
    /\ call = Idle /\ ret = Idle
    /\ parser = Idle /\ parse_result = Idle /\ statements = Idle
    /\ stmt_interpreter = Idle /\ frames = Idle /\ outcome = Idle /\ aborted = Idle
    /\ canvas_size = Idle /\ painted = Idle /\ printed = Idle

\* The handler of the current state returned: the loop goes on, or run
\* returns the error.
Handled(result) ==
    /\ lex_result = Pending
    /\ \E next \in {RunStep(result)} :
          IF next.ok THEN lexer' = next.val /\ UNCHANGED lex_result
          ELSE lex_result' = next /\ UNCHANGED lexer
    /\ UNCHANGED <<opsVars, parseVars, evalVars>>

LexBase ==
    /\ lexer.state = "Base"
    /\ Handled(lex_base(lexer))

LexColor ==
    /\ lexer.state = "InColor"
    /\ Handled(lex_color(lexer))

LexComment ==
    /\ lexer.state = "InComment"
    /\ Handled(lex_comment(lexer))

LexIdent ==
    /\ lexer.state = "InIdent"
    /\ Handled(lex_ident(lexer))

LexNumber ==
    /\ lexer.state = "InNumber"
    /\ Handled(lex_number(lexer))

LexRawString ==
    /\ lexer.state = "InRawString"
    /\ Handled(lex_raw_string(lexer))

LexString ==
    /\ lexer.state = "InString"
    /\ Handled(lex_string(lexer))

LexSpace ==
    /\ lexer.state = "Space"
    /\ Handled(lex_space(lexer))

\* State::Done => break; Ok(self.tokens)
LexDone ==
    /\ lex_result = Pending
    /\ lexer.state = "Done"
    /\ lex_result' = Ok(lexer.tokens)
    /\ UNCHANGED <<lexer, opsVars, parseVars, evalVars>>

NextLex ==
    \/ LexBase \/ LexColor \/ LexComment \/ LexIdent \/ LexNumber
    \/ LexRawString \/ LexString \/ LexSpace \/ LexDone

SpecLex == InitLex /\ [][NextLex]_vars

\* The loop of Lexer::run runs on its own: no iteration waits for anything.
SpecLexFair == InitLex /\ [][NextLex]_vars /\ WF_vars(NextLex)

(***************************************************************************)
(* Claims checked under SpecLex.                                           *)
(***************************************************************************)
Lexed == lex_result # Pending /\ lex_result.ok
UnitKinds == {"UnitEm", "UnitH", "UnitW", "UnitPt"}

\* The source substring addressed by the span of token k, lexed alone.
Relexed(k) ==
    lex(Slice(lexer.input, lex_result.val[k][2].start, lex_result.val[k][2].end))

RoundTrips(k) ==
    /\ Relexed(k).ok
    /\ Len(Relexed(k).val) = 1
    /\ Relexed(k).val[1][1] = lex_result.val[k][1]

\* C9 as stated: every token of a successful lex, unit suffixes included, is
\* the one token that lexing its source substring alone gives.
C9_Original_EveryTokenRoundTrips ==
    Lexed => \A k \in 1..Len(lex_result.val) : RoundTrips(k)

\* C9: every token of a successful lex other than a unit suffix is the one
\* token that lexing its source substring alone gives; the substring of a
\* unit suffix lexed alone gives one identifier token holding that substring.
C9_TokensButUnitsRoundTrip ==
    Lexed =>
        \A k \in 1..Len(lex_result.val) :
            IF lex_result.val[k][1].kind \in UnitKinds
            THEN /\ Relexed(k).ok
                 /\ Len(Relexed(k).val) = 1
                 /\ Relexed(k).val[1][1] =
                        TokenStr("Ident", Slice(lexer.input, lex_result.val[k][2].start,
                                                lex_result.val[k][2].end))
            ELSE RoundTrips(k)

\* "1em" was lexed into a number and a unit suffix: the number is the token
\* of its substring, the unit suffix is not.
C9_Witness ==
    /\ Lexed
    /\ Len(lex_result.val) = 2
    /\ lex_result.val[1][1] = TokenStr("Number", Bytes(<<"1">>))
    /\ lex_result.val[2][1] = Token("UnitEm")
    /\ RoundTrips(1)
    /\ ~RoundTrips(2)

\* Where the byte at offset k of the input lies: in a quoted string, in a
\* raw string, in a comment, or outside of them ("Base"), reading the input
\* from offset i on in the given mode.
RECURSIVE ModeAt(_, _, _, _)
ModeAt(input, i, mode, k) ==
    LET rest == Slice(input, i, Len(input))
    IN  IF i >= k THEN mode
        ELSE CASE mode = "Base" ->
                    IF StartsWith(rest, Bytes(<<"-", "-", "-">>)) THEN ModeAt(input, i + 3, "Raw", k)
                    ELSE IF StartsWith(rest, Bytes(<<"/", "/">>)) THEN ModeAt(input, i + 2, "Comment", k)
                    ELSE IF rest[1] = Byte("\"") THEN ModeAt(input, i + 1, "String", k)
                    ELSE ModeAt(input, i + 1, "Base", k)
               [] mode = "String" ->
                    IF rest[1] = Byte("\\") THEN ModeAt(input, i + 2, "String", k)
                    ELSE IF rest[1] = Byte("\"") THEN ModeAt(input, i + 1, "Base", k)
                    ELSE ModeAt(input, i + 1, "String", k)
               [] mode = "Raw" ->
                    IF StartsWith(rest, Bytes(<<"-", "-", "-">>)) THEN ModeAt(input, i + 3, "Base", k)
                    ELSE ModeAt(input, i + 1, "Raw", k)
               [] mode = "Comment" ->
                    IF rest[1] = Byte("\n") THEN ModeAt(input, i + 1, "Base", k)
                    ELSE ModeAt(input, i + 1, "Comment", k)

\* The offsets of the tabs and carriage returns outside strings and comments.
BareTabs(input) ==
    {k \in 0..(Len(input) - 1) :
        /\ input[k + 1] \in {Byte("\t"), Byte("\r")}
        /\ ModeAt(input, 0, "Base", k) = "Base"}

\* C24: a tab or a carriage return outside a quoted string, a raw string
\* and a comment makes lex return an error, after whatever came before it
\* (nothing, spaces, a comment and its newline, a number, an identifier, a
\* color, an operator); when the input before it lexes, the error is the
\* parse error at that byte.
C24_TabAndCarriageReturnAreErrors ==
    lex_result # Pending =>
        \A k \in BareTabs(lexer.input) :
            /\ ~lex_result.ok
            /\ lex(Slice(lexer.input, 0, k)).ok =>
                   lex_result = Err(make_parse_error(k, Slice(lexer.input, k, Len(lexer.input))))

\* "1", a space and a tab were lexed: the handler of the whitespace state
\* returned the error at offset 2.
C24_Witness ==
    /\ lexer.input = Bytes(<<"1", " ", "\t">>)
    /\ lexer.state = "Space"
    /\ lex_result = Err(ErrorParse(2, 3, "Found tab character. Please use spaces instead."))

\* One iteration of the loop of Lexer::run that did not return an error.
LoopIteration == lexer' # lexer

\* How many iterations in a row can keep the cursor, at most: two from
\* Space on no whitespace (the state after a comment), then Base, then the
\* state that reads the byte at the cursor; one from Base.
StateRank(self) ==
    CASE self.state = "Space" ->
            IF self.start < Len(self.input)
               /\ At(self, self.start) \in {Byte(" "), Byte("\n")}
            THEN 0 ELSE 2
      [] self.state = "Base" -> 1
      [] OTHER -> 0

\* C28: the lexer ends, with the tokens in state Done or with an error.  An
\* iteration of its loop that does not go to Done never moves the cursor
\* back, and when it leaves the cursor where it was it goes from Space to
\* Base (after a comment, on a byte that is no whitespace) or from Base to
\* the state that reads the byte at the cursor; so the states cannot cycle
\* without the cursor advancing, the cursor never passes the end of the
\* input, and there are at most three iterations for every cursor position.
C28_LexerTerminates ==
    /\ [][LoopIteration =>
            \/ lexer'.state = "Done"
            \/ /\ lexer.start < lexer'.start
               /\ lexer'.start <= Len(lexer.input)
            \/ /\ lexer.start = lexer'.start
               /\ StateRank(lexer') < StateRank(lexer)]_vars
    /\ [](lex_result # Pending => (lexer.state = "Done" <=> lex_result.ok))
    /\ <>(lex_result # Pending)

\* After a number and a space the lexer is back in the base state, at the
\* last byte.
C28_Witness ==
    /\ lexer.input = Bytes(<<"1", " ", "a">>)
    /\ lexer.state = "Base" /\ lexer.start = 2
    /\ Len(lexer.tokens) = 1
    /\ lex_result = Pending

\* The span of token k of the result.
SpanOf(k) == lex_result.val[k][2]

\* The byte at offset i is a space or a newline between tokens, or a byte of
\* a comment (its two slashes, its text, the newline that ends it).
BetweenTokens(i) ==
    LET mode == ModeAt(lexer.input, 0, "Base", i)
    IN  \/ mode = "Comment"
        \/ /\ mode = "Base"
           /\ \/ lexer.input[i + 1] \in {Byte(" "), Byte("\n")}
              \/ StartsWith(Slice(lexer.input, i, Len(lexer.input)), Bytes(<<"/", "/">>))

\* C29: the spans of the tokens of a successful lex are not empty, lie in
\* the input and follow each other without overlap; a byte lies in no span
\* exactly when it is a space or a newline between tokens or a byte of a
\* comment; a unit suffix starts where the number before it ends.
C29_SpansPartitionTheInput ==
    Lexed =>
        /\ \A k \in 1..Len(lex_result.val) :
              /\ 0 <= SpanOf(k).start
              /\ SpanOf(k).start < SpanOf(k).end
              /\ SpanOf(k).end <= Len(lexer.input)
              /\ k > 1 => SpanOf(k - 1).end <= SpanOf(k).start
              /\ lex_result.val[k][1].kind \in UnitKinds =>
                    /\ k > 1
                    /\ lex_result.val[k - 1][1].kind = "Number"
                    /\ SpanOf(k - 1).end = SpanOf(k).start
        /\ \A i \in 0..(Len(lexer.input) - 1) :
              BetweenTokens(i) <=>
                  ~(\E k \in 1..Len(lex_result.val) :
                        SpanOf(k).start <= i /\ i < SpanOf(k).end)

\* A space and "1pt" were lexed: two tokens, the unit at the end of the
\* number, the space in no span.
C29_Witness ==
    /\ Lexed
    /\ lexer.input = Bytes(<<" ", "1", "p", "t">>)
    /\ Len(lex_result.val) = 2
    /\ SpanOf(1) = Span(1, 2) /\ SpanOf(2) = Span(2, 4)

(***************************************************************************)
(* parser_utils.rs.  A str is the sequence of its bytes and a String the   *)
(* sequence of its code points; the inputs of the model are ASCII, where   *)
(* the two agree.  A panic is a result that no caller handles.             *)
(***************************************************************************)
Panic(msg) == Err([kind |-> "Panic", msg |-> msg])

\* str::find and str::rfind of a byte: the index from 0, or None.
Find(s, byte) ==
    IF \E k \in 1..Len(s) : s[k] = byte
    THEN Some((CHOOSE k \in 1..Len(s) : s[k] = byte /\ \A j \in 1..(k - 1) : s[j] # byte) - 1)
    ELSE None

RFind(s, byte) ==
    IF \E k \in 1..Len(s) : s[k] = byte
    THEN Some((CHOOSE k \in 1..Len(s) :
                   s[k] = byte /\ \A j \in (k + 1)..Len(s) : s[j] # byte) - 1)
    ELSE None

\* left.chars().take(indent).all(|x| x == ' ')
IndentIsSpaces(left, indent) ==
    \A k \in 1..(IF indent < Len(left) THEN indent ELSE Len(left)) : left[k] = Byte(" ")

\* The while loop of unescape_raw_string_literal and the final line.
RECURSIVE RawStringLines(_, _, _)
RawStringLines(left, indent, string) ==
    IF ~Find(left, Byte("\n")).some
    THEN IF ~IndentIsSpaces(left, indent)
         THEN Panic("Non-space character in indent of raw string literal.")
         ELSE IF Len(left) >= indent
         THEN Ok(string \o SubSeq(left, indent + 1, Len(left)))
         ELSE Ok(string)
    ELSE IF Find(left, Byte("\n")).val = 0
    THEN RawStringLines(Tail(left), indent, Append(string, Byte("\n")))
    ELSE IF ~(Find(left, Byte("\n")).val > indent)
    THEN Panic("Newline in indent of raw string literal.")
    ELSE IF ~IndentIsSpaces(left, indent)
    THEN Panic("Non-space character in indent of raw string literal.")
    ELSE RawStringLines(SubSeq(left, Find(left, Byte("\n")).val + 2, Len(left)), indent,
                        string \o SubSeq(left, indent + 1, Find(left, Byte("\n")).val + 1))

\* The literal without its delimiters, as unescape_raw_string_literal slices it.
Sliced(literal) == SubSeq(literal, 4, Len(literal) - 3)

unescape_raw_string_literal(literal) ==
    IF Len(literal) < 7
    THEN Panic("String::with_capacity(literal.len() - 7)")
    ELSE IF ~RFind(Sliced(literal), Byte("\n")).some
    THEN Panic("Raw string literal must contain newline")
    ELSE IF Sliced(literal)[1] # Byte("\n")
    THEN Panic("Raw string literal must have newline after opening '---'.")
    ELSE IF RFind(Sliced(literal), Byte("\n")).val < 1
    THEN Panic("&sliced[1..last_newline]")
    ELSE RawStringLines(SubSeq(Sliced(literal), 2, RFind(Sliced(literal), Byte("\n")).val),
                        Len(Sliced(literal)) - RFind(Sliced(literal), Byte("\n")).val - 1,
                        <<>>)

\* char::to_digit(16) of a hexadecimal digit.
to_digit(byte) ==
    IF is_digit(byte) THEN byte - Byte("0")
    ELSE IF byte >= Byte("a") THEN byte - Byte("a") + 10
    ELSE byte - Byte("A") + 10

\* char::from_u32 accepts the code points that are not surrogates.
char_from_codepoint(codepoint) ==
    IF codepoint <= 55295 \/ (57344 <= codepoint /\ codepoint <= 1114111)
    THEN Ok(codepoint)
    ELSE Err("Invalid code point.")

EscNormal == [st |-> "Normal"]
EscEscape == [st |-> "Escape"]
EscUnicode(codepoint, num_left) ==
    [st |-> "Unicode", codepoint |-> codepoint, num_left |-> num_left]

\* One turn of the loop of unescape_string_literal: the state and the string
\* after the character ch.
UnescapeChar(ch, st, string) ==
    IF st.st = "Normal"
    THEN IF ch = Byte("\\") THEN Ok([st |-> EscEscape, string |-> string])
         ELSE Ok([st |-> EscNormal, string |-> Append(string, ch)])
    ELSE IF st.st = "Escape"
    THEN IF ch = Byte("\\")
         THEN Ok([st |-> EscNormal, string |-> Append(string, Byte("\\"))])
         ELSE IF ch = Byte("\"")
         THEN Ok([st |-> EscNormal, string |-> Append(string, Byte("\""))])
         ELSE IF ch = Byte("n")
         THEN Ok([st |-> EscNormal, string |-> Append(string, Byte("\n"))])
         ELSE IF ch = Byte("u") THEN Ok([st |-> EscUnicode(0, 6), string |-> string])
         ELSE Err("Invalid escape code.")
    ELSE IF is_hexadecimal(ch) /\ st.num_left > 0
    THEN Ok([st |-> EscUnicode(st.codepoint * 16 + to_digit(ch), st.num_left - 1),
             string |-> string])
    ELSE Try(char_from_codepoint(st.codepoint), LAMBDA c :
             Ok([st |-> EscNormal, string |-> Append(Append(string, c), ch)]))

\* The match on the state after the loop of unescape_string_literal.
UnescapeEnd(st, string) ==
    IF st.st = "Unicode"
    THEN Try(char_from_codepoint(st.codepoint), LAMBDA c : Ok(Append(string, c)))
    ELSE Ok(string)

\* The loop of unescape_string_literal from character k of chars on, and the
\* match on the state after it.
RECURSIVE UnescapeLoop(_, _, _, _)
UnescapeLoop(chars, k, st, string) ==
    IF k > Len(chars) THEN UnescapeEnd(st, string)
    ELSE Try(UnescapeChar(chars[k], st, string), LAMBDA next :
             UnescapeLoop(chars, k + 1, next.st, next.string))

unescape_string_literal(s) == UnescapeLoop(SubSeq(s, 2, Len(s) - 1), 1, EscNormal, <<>>)

\* u8::from_str_radix(digits, 16) of two hexadecimal digits.
from_str_radix(digits) == to_digit(digits[1]) * 16 + to_digit(digits[2])

parse_color(color) ==
    TermColor(from_str_radix(SubSeq(color, 2, 3)), from_str_radix(SubSeq(color, 4, 5)),
              from_str_radix(SubSeq(color, 6, 7)))

(***************************************************************************)
(* parser.rs.  A parser method returns the parser as it left it together   *)
(* with its value, or a PError.                                            *)
(***************************************************************************)
TermList(elements) == [t |-> "List", elements |-> elements]
StmtPut(expr) == [t |-> "Put", expr |-> expr]
BinOpInfix(idents) == [infix |-> idents]

PError(token_index, message) ==
    [kind |-> "PError", token_index |-> token_index, message |-> message]

POk(self, val) == Ok([self |-> self, val |-> val])

\* result.map(f) on the value of a parser method.
Map(result, F(_)) ==
    CHOOSE out \in {IF ~r.ok THEN r ELSE POk(r.val.self, F(r.val.val)) : r \in {result}} : TRUE

replace_error(result, new_message) ==
    IF ~result.ok /\ result.err.kind = "PError"
    THEN Err([result.err EXCEPT !.message = new_message])
    ELSE result

ParserNew(tokens) == [tokens |-> tokens, cursor |-> 0]

peek(self) ==
    IF self.cursor < Len(self.tokens) THEN Some(self.tokens[self.cursor + 1][1]) ELSE None

peek_next(self) ==
    IF self.cursor + 1 < Len(self.tokens) THEN Some(self.tokens[self.cursor + 2][1]) ELSE None

\* Some(token) of the given kind.
IsSome(maybe_token, kind) == maybe_token.some /\ maybe_token.val.kind = kind

consume(self) == [self EXCEPT !.cursor = @ + 1]

take(self) ==
    IF self.cursor < Len(self.tokens)
    THEN [self |-> consume(self), val |-> Some(self.tokens[self.cursor + 1][1])]
    ELSE [self |-> self, val |-> None]

error(self, message) == Err(PError(self.cursor, message))

expect_consume(self, expected, message) ==
    IF IsSome(peek(self), expected) THEN POk(consume(self), <<>>) ELSE error(self, message)

expect_peek(self, expected, message) ==
    IF IsSome(peek(self), expected) THEN POk(self, <<>>) ELSE error(self, message)

\* f64::from_str of the digits and the period of a number token.
RECURSIVE DigitsValue(_)
DigitsValue(digits) ==
    IF digits = <<>> THEN 0
    ELSE DigitsValue(SubSeq(digits, 1, Len(digits) - 1)) * 10
             + (digits[Len(digits)] - Byte("0"))

RECURSIVE Pow10(_)
Pow10(n) == IF n = 0 THEN 1 ELSE 10 * Pow10(n - 1)

from_str(num_str) ==
    IF Find(num_str, Byte(".")).some
    THEN Rat(DigitsValue(SubSeq(num_str, 1, Find(num_str, Byte(".")).val)
                         \o SubSeq(num_str, Find(num_str, Byte(".")).val + 2, Len(num_str))),
             Pow10(Len(num_str) - Find(num_str, Byte(".")).val - 1))
    ELSE R(DigitsValue(num_str))

RECURSIVE parse_statement(_)
RECURSIVE parse_block(_)
RECURSIVE parse_expr(_)
RECURSIVE parse_expr_infix(_)
RECURSIVE parse_expr_add(_)
RECURSIVE parse_expr_mul(_)
RECURSIVE parse_expr_exp(_)
RECURSIVE parse_fn_call_args(_)
RECURSIVE parse_unop(_)
RECURSIVE parse_term(_)
RECURSIVE parse_fn_def(_)
RECURSIVE parse_coord_or_parens(_)
RECURSIVE parse_list(_)

parse_ident(self) ==
    IF IsSome(peek(self), "Ident") THEN POk(consume(self), peek(self).val.inner)
    ELSE error(self, "Parse error: expected identifier.")

\* The loop of parse_idents.
RECURSIVE IdentsLoop(_, _)
IdentsLoop(self, idents) ==
    Try(parse_ident(self), LAMBDA ident :
        IF IsSome(peek(ident.self), "Dot")
        THEN IdentsLoop(consume(ident.self), Append(idents, ident.val))
        ELSE POk(ident.self, Append(idents, ident.val)))

parse_idents(self) == IdentsLoop(self, <<>>)

parse_import(self) ==
    IF ~IsSome(take(self).val, "KwImport")
    THEN Panic("assertion failed: self.take() == Some(Token::KwImport)")
    ELSE replace_error(parse_idents(take(self).self),
                       "Parse error in import: expected path like 'std.colors'.")

parse_assign(self) ==
    Try(parse_ident(self), LAMBDA ident :
        Try(expect_consume(ident.self, "Equals", "Parse error: expected '='."), LAMBDA eq :
            Try(parse_expr(eq.self), LAMBDA expr :
                POk(expr.self, StmtAssign(ident.val, expr.val)))))

parse_return(self) == Map(parse_expr(consume(self)), LAMBDA expr : StmtReturn(expr))

parse_put(self) == Map(parse_expr(consume(self)), LAMBDA expr : StmtPut(expr))

parse_statement(self) ==
    IF IsSome(peek(self), "KwImport")
    THEN Map(parse_import(self), LAMBDA idents : StmtImport(idents))
    ELSE IF IsSome(peek(self), "Ident") THEN parse_assign(self)
    ELSE IF IsSome(peek(self), "KwReturn") THEN parse_return(self)
    ELSE IF IsSome(peek(self), "LBrace")
    THEN Map(parse_block(self), LAMBDA block : StmtBlock(block))
    ELSE IF IsSome(peek(self), "KwPut") THEN parse_put(self)
    ELSE error(self, "Parse error in statement: expected import, return, assignment, block, or put.")

\* The loop of parse_block.
RECURSIVE BlockStatements_(_, _)
BlockStatements_(self, statements_) ==
    IF IsSome(peek(self), "RBrace") THEN POk(consume(self), statements_)
    ELSE IF ~peek(self).some
    THEN error(self, "Parse error in block: expected closing '}'.")
    ELSE Try(parse_statement(self), LAMBDA stmt :
             BlockStatements_(stmt.self, Append(statements_, stmt.val)))

parse_block(self) == BlockStatements_(consume(self), <<>>)

parse_expr(self) == parse_expr_infix(self)

RECURSIVE InfixLoop(_, _)

\* The loop of parse_expr_infix without the look at the token after the identifier.
InfixLoopWithoutLookahead(self, term) ==
    IF IsSome(peek(self), "Ident")
    THEN Try(parse_idents(self), LAMBDA infix :
             Try(parse_expr_add(infix.self), LAMBDA rhs :
                 InfixLoop(rhs.self, TermBinOp(term, BinOpInfix(infix.val), rhs.val))))
    ELSE POk(self, term)

\* The loop of parse_expr_infix.
InfixLoop(self, term) ==
    IF IsSome(peek(self), "Ident") /\ IsSome(peek_next(self), "Equals") THEN POk(self, term)
    ELSE IF IsSome(peek(self), "Ident")
    THEN Try(parse_idents(self), LAMBDA infix :
             Try(parse_expr_add(infix.self), LAMBDA rhs :
                 InfixLoop(rhs.self, TermBinOp(term, BinOpInfix(infix.val), rhs.val))))
    ELSE POk(self, term)

parse_expr_infix(self) ==
    Try(parse_expr_add(self), LAMBDA term : InfixLoop(term.self, term.val))

\* maybe_op of parse_expr_add.
AddOp(self) ==
    IF IsSome(peek(self), "Plus") THEN Some("Add")
    ELSE IF IsSome(peek(self), "Minus") THEN Some("Sub")
    ELSE IF IsSome(peek(self), "Tilde") THEN Some("Adj")
    ELSE None

\* The right-hand side of an additive operator is the whole rest of the
\* additive expression: the operators group to the right.
AddLoopGroupsRight(self, term) ==
    IF AddOp(self).some
    THEN Try(parse_expr_add(consume(self)), LAMBDA rhs :
             POk(rhs.self, TermBinOp(term, AddOp(self).val, rhs.val)))
    ELSE POk(self, term)

\* The loop of parse_expr_add.
RECURSIVE AddLoop(_, _)
AddLoop(self, term) ==
    IF AddOp(self).some
    THEN Try(parse_expr_mul(consume(self)), LAMBDA rhs :
             AddLoop(rhs.self, TermBinOp(term, AddOp(self).val, rhs.val)))
    ELSE POk(self, term)

parse_expr_add(self) ==
    Try(parse_expr_mul(self), LAMBDA term : AddLoop(term.self, term.val))

\* maybe_op of parse_expr_mul.
MulOp(self) ==
    IF IsSome(peek(self), "Star") THEN Some("Mul")
    ELSE IF IsSome(peek(self), "Slash") THEN Some("Div")
    ELSE None

\* The loop of parse_expr_mul.
RECURSIVE MulLoop(_, _)
MulLoop(self, term) ==
    IF MulOp(self).some
    THEN Try(parse_expr_exp(consume(self)), LAMBDA rhs :
             MulLoop(rhs.self, TermBinOp(term, MulOp(self).val, rhs.val)))
    ELSE POk(self, term)

parse_expr_mul(self) ==
    Try(parse_expr_exp(self), LAMBDA term : MulLoop(term.self, term.val))

parse_expr_exp(self) ==
    IF IsSome(peek(self), "Minus") THEN parse_unop(self)
    ELSE Try(parse_term(self), LAMBDA term :
             IF IsSome(peek(term.self), "Hat")
             THEN Try(parse_term(consume(term.self)), LAMBDA rhs :
                      POk(rhs.self, TermBinOp(term.val, "Exp", rhs.val)))
             ELSE IF IsSome(peek(term.self), "LParen")
             THEN Try(parse_fn_call_args(term.self), LAMBDA args :
                      POk(args.self, TermFnCall(term.val, args.val)))
             ELSE POk(term.self, term.val))

\* The loop of parse_fn_call_args.
RECURSIVE FnCallArgsLoop(_, _)
FnCallArgsLoop(self, args) ==
    Try(parse_expr(self), LAMBDA expr :
        IF IsSome(peek(expr.self), "Comma")
        THEN FnCallArgsLoop(consume(expr.self), Append(args, expr.val))
        ELSE IF IsSome(peek(expr.self), "RParen")
        THEN POk(consume(expr.self), Append(args, expr.val))
        ELSE error(expr.self, "Parse error in function call: expected ',' or ')'."))

parse_fn_call_args(self) ==
    IF IsSome(peek(consume(self)), "RParen") THEN POk(consume(consume(self)), <<>>)
    ELSE FnCallArgsLoop(consume(self), <<>>)

parse_unop(self) ==
    IF ~IsSome(take(self).val, "Minus")
    THEN Panic("parse_unop must be called with cursor on unop.")
    ELSE Try(parse_term(take(self).self), LAMBDA term :
             POk(term.self, TermUnOp("Neg", term.val)))

parse_number(self) ==
    IF ~IsSome(take(self).val, "Number")
    THEN Panic("parse_number must be called with cursor at number token.")
    ELSE IF IsSome(peek(take(self).self), "UnitEm")
    THEN POk(consume(take(self).self), TermNumber(from_str(take(self).val.val.inner), "Em"))
    ELSE IF IsSome(peek(take(self).self), "UnitPt")
    THEN POk(consume(take(self).self), TermNumber(from_str(take(self).val.val.inner), "Pt"))
    ELSE IF IsSome(peek(take(self).self), "UnitW")
    THEN POk(consume(take(self).self), TermNumber(from_str(take(self).val.val.inner), "W"))
    ELSE IF IsSome(peek(take(self).self), "UnitH")
    THEN POk(consume(take(self).self), TermNumber(from_str(take(self).val.val.inner), "H"))
    ELSE POk(take(self).self, TermNumber(from_str(take(self).val.val.inner), "None"))

\* The loop of parse_fn_def_args.
RECURSIVE FnDefArgsLoop(_, _)
FnDefArgsLoop(self, args) ==
    IF ~IsSome(peek(self), "Ident")
    THEN error(self, "Parse error in function definition: expected argument name or ')'.")
    ELSE IF IsSome(take(consume(self)).val, "Comma")
    THEN FnDefArgsLoop(take(consume(self)).self, Append(args, peek(self).val.inner))
    ELSE IF IsSome(take(consume(self)).val, "RParen")
    THEN POk(take(consume(self)).self, Append(args, peek(self).val.inner))
    ELSE error(take(consume(self)).self,
               "Parse error in function definition: expected ',' or ')'.")

parse_fn_def_args(self) ==
    Try(expect_consume(self, "LParen", "Parse error in function definition: expected '('."),
        LAMBDA paren :
            IF IsSome(peek(paren.self), "RParen") THEN POk(consume(paren.self), <<>>)
            ELSE FnDefArgsLoop(paren.self, <<>>))

parse_fn_def(self) ==
    Try(parse_fn_def_args(consume(self)), LAMBDA args :
        Try(expect_peek(args.self, "LBrace",
                        "Parse error in function definition: expected '{'."), LAMBDA brace :
            Try(parse_block(brace.self), LAMBDA body :
                POk(body.self, TermFnDef(args.val, body.val)))))

parse_coord_or_parens(self) ==
    Try(parse_expr(consume(self)), LAMBDA expr_x :
        IF IsSome(take(expr_x.self).val, "RParen")
        THEN POk(take(expr_x.self).self, expr_x.val)
        ELSE IF ~IsSome(take(expr_x.self).val, "Comma")
        THEN error(take(expr_x.self).self, "Parse error: expected ',' or ')'.")
        ELSE Try(parse_expr(take(expr_x.self).self), LAMBDA expr_y :
                 Try(expect_consume(expr_y.self, "RParen",
                                    "Parse error in coordinate: expected ')'."), LAMBDA paren :
                     POk(paren.self, TermCoord(expr_x.val, expr_y.val)))))

\* The loop of parse_list.
RECURSIVE ListLoop(_, _)
ListLoop(self, elements) ==
    IF IsSome(peek(self), "RBracket") THEN POk(consume(self), TermList(elements))
    ELSE Try(parse_expr(self), LAMBDA expr :
             IF IsSome(peek(expr.self), "RBracket")
             THEN POk(consume(expr.self), TermList(Append(elements, expr.val)))
             ELSE IF IsSome(peek(expr.self), "Semicolon")
             THEN ListLoop(consume(expr.self), Append(elements, expr.val))
             ELSE IF IsSome(peek(expr.self), "Comma")
             THEN error(expr.self, "Parse error in list: expected ';' or ']'. Note: use ';' to separate elements.")
             ELSE error(expr.self, "Parse error in list: expected ';' or ']'."))

parse_list(self) == ListLoop(consume(self), <<>>)

\* unescape_string_literal(s).unwrap()
StringTerm(unescaped) ==
    IF unescaped.ok THEN Ok(TermString(unescaped.val)) ELSE Panic(unescaped.err)

parse_term(self) ==
    IF ~peek(self).some THEN error(self, "Parse error: expected expression.")
    ELSE IF IsSome(peek(self), "String")
    THEN Try(StringTerm(unescape_string_literal(peek(self).val.inner)), LAMBDA term :
             POk(consume(self), term))
    ELSE IF IsSome(peek(self), "RawString")
    THEN Try(unescape_raw_string_literal(peek(self).val.inner), LAMBDA string :
             POk(consume(self), TermString(string)))
    ELSE IF IsSome(peek(self), "Color")
    THEN POk(consume(self), parse_color(peek(self).val.inner))
    ELSE IF IsSome(peek(self), "Number") THEN parse_number(self)
    ELSE IF IsSome(peek(self), "Ident")
    THEN Map(parse_idents(self), LAMBDA idents : TermIdents(idents))
    ELSE IF IsSome(peek(self), "KwFunction") THEN parse_fn_def(self)
    ELSE IF IsSome(peek(self), "LBrace")
    THEN Map(parse_block(self), LAMBDA block : TermBlock(block))
    ELSE IF IsSome(peek(self), "LBracket") THEN parse_list(self)
    ELSE IF IsSome(peek(self), "LParen") THEN parse_coord_or_parens(self)
    ELSE error(self, "Parse error: expected expression.")

\* The loop of parse_document.
RECURSIVE DocumentLoop(_, _)
DocumentLoop(self, statements_) ==
    IF self.cursor < Len(self.tokens)
    THEN Try(parse_statement(self), LAMBDA stmt :
             DocumentLoop(stmt.self, Append(statements_, stmt.val)))
    ELSE POk(self, statements_)

parse_document(self) == DocumentLoop(self, <<>>)

\* The Err arm of parse: the error with the span of the token of the PError,
\* or with the empty span at the end of the last token.
ParseErrorAt(tokens, perr) ==
    IF perr.token_index > Len(tokens)
    THEN Panic("assertion failed: perr.token_index <= tokens.len()")
    ELSE IF perr.token_index = Len(tokens) /\ Len(tokens) = 0
    THEN Panic("tokens[tokens.len() - 1]")
    ELSE IF perr.token_index = Len(tokens)
    THEN Err(ErrorParse(tokens[Len(tokens)][2].end, tokens[Len(tokens)][2].end,
                        <<perr.message, " Found end of input instead.">>))
    ELSE Err(ErrorParse(tokens[perr.token_index + 1][2].start,
                        tokens[perr.token_index + 1][2].end, <<perr.message>>))

\* What parse makes of a result of the parser.
ParseResult(tokens, result) ==
    IF result.ok THEN Ok(result.val.val)
    ELSE IF result.err.kind = "PError" THEN ParseErrorAt(tokens, result.err)
    ELSE result

parse(tokens) == ParseResult(tokens, parse_document(ParserNew(tokens)))

(***************************************************************************)
(* SpecParse: parse_or_abort on a source text.  The text is lexed, then    *)
(* parse_document parses one statement for each turn of its loop.          *)
(***************************************************************************)
MaxOperators == 2

BinaryOperators == {Bytes(o) : o \in {<<"+">>, <<"-">>, <<"~">>, <<"*">>, <<"/">>}}
Operands == {Bytes(o) : o \in {<<"1">>, <<"2">>}}

\* An operand followed by up to n times an operator and an operand, with
\* spaces between them.
RECURSIVE ChainsOf(_)
ChainsOf(n) ==
    IF n = 0 THEN Operands
    ELSE ChainsOf(n - 1)
         \cup {c \o Bytes(<<" ">>) \o op \o Bytes(<<" ">>) \o operand :
                   c \in ChainsOf(n - 1), op \in BinaryOperators, operand \in Operands}

\* The expressions of the tests of the parser and of the documentation.
ExampleExprs ==
    {Bytes(e) : e \in {<<"1", " ", "+", " ", "2", " ", "*", " ", "3">>,
                       <<"1", " ", "-", " ", "2", " ", "-", " ", "3">>,
                       <<"1", " ", "+", " ", "2", " ", "+", " ", "6">>,
                       <<"1", " ", "*", " ", "2", " ", "*", " ", "6">>,
                       <<"1", " ", "*", " ", "2", " ", "+", " ", "6", " ", "/", " ", "1", "0">>,
                       <<"1", "^", "6", " ", "*", " ", "-", "2">>,
                       <<"(", "1", " ", "+", " ", "2", ")", " ", "*", " ", "3">>,
                       <<"1", ".", "5", "w", " ", "-", " ", "-", "2", "e", "m">>}}

AssignX == Bytes(<<"x", " ", "=", " ">>)

\* Chains in which the identifier a stands between additive expressions.
InfixOperators == {Bytes(o) : o \in {<<"a">>, <<"+">>, <<"*">>}}

RECURSIVE InfixChainsOf(_)
InfixChainsOf(n) ==
    IF n = 0 THEN Operands
    ELSE InfixChainsOf(n - 1)
         \cup {c \o Bytes(<<" ">>) \o op \o Bytes(<<" ">>) \o operand :
                   c \in InfixChainsOf(n - 1), op \in InfixOperators, operand \in Operands}

\* An identifier after an expression that is followed by '='.
SeparatedSources ==
    {Bytes(e) : e \in {<<"x", " ", "=", " ", "1", " ", "a", " ", "=", " ", "2">>,
                       <<"{", " ", "x", " ", "=", " ", "1", " ", "a", " ", "=", " ", "2", " ", "}">>,
                       <<"{", " ", "x", " ", "=", " ", "1", " ", "*", " ", "a", " ", "=", " ", "2", " ", "}">>,
                       <<"x", " ", "=", " ", "1", " ", "*", " ", "a", " ", "=", " ", "2">>}}

OtherSources ==
    {Bytes(e) : e \in {<<>>,
                       <<"i", "m", "p", "o", "r", "t", " ", "a", ".", "a">>,
                       <<"i", "m", "p", "o", "r", "t", " ", "1">>,
                       <<"{", " ", "x", " ", "=", " ", "1", " ", "r", "e", "t", "u", "r", "n", " ", "x", " ", "}">>,
                       <<"{", " ", "p", "u", "t", " ", "x">>,
                       <<"x", " ", "=", " ", "f", "u", "n", "c", "t", "i", "o", "n", "(", "a", ",", " ", "a", ")", " ", "{", "}">>,
                       <<"x", " ", "=", " ", "f", "u", "n", "c", "t", "i", "o", "n", "(", "a", ",", ")", " ", "{", "}">>,
                       <<"x", " ", "=", " ", "f", "(", "1", ",", " ", "2", ")", " ", "x", " ", "=", " ", "(", "1", ",", " ", "2", ")">>,
                       <<"x", " ", "=", " ", "1", " ", "a", " ", "2", " ", "x", " ", "=", " ", "1">>,
                       <<"x", " ", "=", " ", "\"", "a", "\\", "n", "\"">>,
                       <<"x", " ", "=", " ", "\"", "\\", "z", "\"">>,
                       <<"x", " ", "=", " ", "\"", "\\", "u", "d", "8", "0", "0", "\"">>,
                       <<"x", " ", "=", " ", "#", "a", "1", "a", "1", "a", "1">>,
                       <<"x", " ", "=", " ", "-", "-", "-", "\n", "a", "\n", "-", "-", "-">>,
                       <<"x", " ", "=", " ", "1", " ", "+">>,
                       <<"x", " ", "=", " ", "(", "1", " ", "2", ")">>,
                       <<"x", " ", "=", " ", "(", "1", " ", "2">>,
                       <<"{", " ", "x", " ", "=", " ", "1">>,
                       <<"x", " ", "=", " ", "f", "u", "n", "c", "t", "i", "o", "n", "(", "a", " ", "a", ")", " ", "{", "}">>,
                       <<"=", " ", "1">>,
                       <<"x", " ", "=", " ", "\t", "1">>}}

Sources ==
    {AssignX \o e : e \in ChainsOf(MaxOperators) \cup ExampleExprs} \cup OtherSources
        \cup {AssignX \o e : e \in InfixChainsOf(MaxOperators)} \cup SeparatedSources

InitParse ==
    /\ lexer \in {LexerNew(input) : input \in Sources}
    /\ lex_result = Pending
    /\ parser = Pending
    /\ parse_result = Pending
    /\ statements = <<>>
    /\ call = Idle /\ ret = Idle
    /\ stmt_interpreter = Idle /\ frames = Idle /\ outcome = Idle /\ aborted = Idle
    /\ canvas_size = Idle /\ painted = Idle /\ printed = Idle

\* lexer::lex(input): the tokens go to parser::parse, an error is the result.
Lex ==
    /\ lex_result = Pending
    /\ \E result \in {lex(lexer.input)} :
          /\ lex_result' = result
          /\ IF result.ok
             THEN parser' = ParserNew(result.val) /\ UNCHANGED parse_result
             ELSE parse_result' = result /\ UNCHANGED parser
    /\ UNCHANGED <<lexer, statements, opsVars, evalVars>>

\* One turn of the loop of parse_document; a PError ends parse.
ParseStatement ==
    /\ lex_result # Pending
    /\ parse_result = Pending
    /\ parser.cursor < Len(parser.tokens)
    /\ \E result \in {parse_statement(parser)} :
          IF result.ok
          THEN /\ parser' = result.val.self
               /\ statements' = Append(statements, result.val.val)
               /\ UNCHANGED parse_result
          ELSE /\ parse_result' = ParseResult(parser.tokens, result)
               /\ UNCHANGED <<parser, statements>>
    /\ UNCHANGED <<lexVars, opsVars, evalVars>>

\* The loop of parse_document ends at the last token: Ok(Document(statements)).
ParseDocument ==
    /\ lex_result # Pending
    /\ parse_result = Pending
    /\ parser.cursor >= Len(parser.tokens)
    /\ parse_result' = ParseResult(parser.tokens, POk(parser, statements))
    /\ UNCHANGED <<parser, statements, lexVars, opsVars, evalVars>>

NextParse == Lex \/ ParseStatement \/ ParseDocument

SpecParse == InitParse /\ [][NextParse]_vars

(***************************************************************************)
(* Claims checked under SpecParse.                                         *)
(***************************************************************************)
AddKinds == {"Plus", "Minus", "Tilde"}
MulKinds == {"Star", "Slash"}

BinOpOf(kind) ==
    CASE kind = "Plus" -> "Add" [] kind = "Minus" -> "Sub" [] kind = "Tilde" -> "Adj"
      [] kind = "Star" -> "Mul" [] kind = "Slash" -> "Div"

\* Tokens k.. of the input are a chain: numbers at every other place
\* from k, operators of the two levels between them.
IsChain(tokens, k) ==
    /\ Len(tokens) >= k
    /\ (Len(tokens) - k) % 2 = 0
    /\ \A j \in k..Len(tokens) :
          IF (j - k) % 2 = 0 THEN tokens[j][1].kind = "Number"
          ELSE tokens[j][1].kind \in AddKinds \cup MulKinds

\* The last operator among tokens from..to whose kind is in kinds, or 0.
LastOperator(tokens, from, to, kinds) ==
    IF \E j \in from..to : tokens[j][1].kind \in kinds
    THEN CHOOSE j \in from..to :
             /\ tokens[j][1].kind \in kinds
             /\ \A i \in (j + 1)..to : tokens[i][1].kind \notin kinds
    ELSE 0

\* Where the chain of tokens from..to splits: at its last additive operator,
\* or without one at its last multiplicative operator.
SplitAt(tokens, from, to) ==
    IF LastOperator(tokens, from, to, AddKinds) # 0
    THEN LastOperator(tokens, from, to, AddKinds)
    ELSE LastOperator(tokens, from, to, MulKinds)

\* The tree that precedence and grouping to the left give the chain of
\* tokens from..to.
RECURSIVE Grouped(_, _, _)
Grouped(tokens, from, to) ==
    IF from = to THEN TermNumber(from_str(tokens[from][1].inner), "None")
    ELSE TermBinOp(Grouped(tokens, from, SplitAt(tokens, from, to) - 1),
                   BinOpOf(tokens[SplitAt(tokens, from, to)][1].kind),
                   Grouped(tokens, SplitAt(tokens, from, to) + 1, to))

Number(n) == TermNumber(R(n), "None")

\* The source after "x = " and the expression it stands for.
Example(source, term) == [source |-> AssignX \o Bytes(source), term |-> term]

Examples ==
    {Example(<<"1", " ", "+", " ", "2", " ", "*", " ", "3">>,
             TermBinOp(Number(1), "Add", TermBinOp(Number(2), "Mul", Number(3)))),
     Example(<<"1", " ", "-", " ", "2", " ", "-", " ", "3">>,
             TermBinOp(TermBinOp(Number(1), "Sub", Number(2)), "Sub", Number(3))),
     Example(<<"1", " ", "*", " ", "2", " ", "*", " ", "6">>,
             TermBinOp(TermBinOp(Number(1), "Mul", Number(2)), "Mul", Number(6))),
     Example(<<"1", " ", "*", " ", "2", " ", "+", " ", "6", " ", "/", " ", "1", "0">>,
             TermBinOp(TermBinOp(Number(1), "Mul", Number(2)), "Add",
                       TermBinOp(Number(6), "Div", Number(10))))}

Parsed == parse_result # Pending

\* C10: a document "x = " followed by a chain of numbers and binary operators
\* parses to one assignment of the tree that splits the chain at its last
\* operator of the level of + - ~, or without one at its last operator of
\* the level of * /; the four expressions of the claim parse to the trees it
\* gives.
C10_ChainsGroupByLevelThenLeft ==
    Parsed =>
        /\ (lex_result.ok /\ IsChain(lex_result.val, 3)) =>
               /\ parse_result.ok
               /\ parse_result.val =
                      <<StmtAssign(Bytes(<<"x">>),
                                   Grouped(lex_result.val, 3, Len(lex_result.val)))>>
        /\ \A e \in Examples :
               lexer.input = e.source =>
                   parse_result.ok /\ parse_result.val = <<StmtAssign(Bytes(<<"x">>), e.term)>>

\* "x = 1 * 2 + 6 / 10" was parsed.
C10_Witness ==
    /\ Parsed
    /\ lexer.input = AssignX \o Bytes(<<"1", " ", "*", " ", "2", " ", "+", " ", "6", " ",
                                        "/", " ", "1", "0">>)
    /\ parse_result.ok
    /\ parse_result.val[1].expr.op = "Add"
    /\ parse_result.val[1].expr.lhs.op = "Mul"
    /\ parse_result.val[1].expr.rhs.op = "Div"

\* The string literal of token k has an invalid escape sequence or a unicode
\* escape that gives no code point.
InvalidStringToken(k) ==
    /\ lex_result.val[k][1].kind = "String"
    /\ ~unescape_string_literal(lex_result.val[k][1].inner).ok

\* C12 as stated: a document with a string literal that has an invalid escape
\* sequence or a unicode escape that gives no code point makes parse return
\* a parse error with a source span; parse does not panic.
C12_Original_InvalidEscapeIsParseError ==
    (Parsed /\ lex_result.ok /\ \E k \in 1..Len(lex_result.val) : InvalidStringToken(k)) =>
        /\ ~parse_result.ok
        /\ parse_result.err.kind = "Parse"

\* Tokens k.. of the input are numbers with an identifier or an operator of
\* + and * between each two of them.
IsInfixChain(tokens, k) ==
    /\ Len(tokens) >= k
    /\ (Len(tokens) - k) % 2 = 0
    /\ \A j \in k..Len(tokens) :
          IF (j - k) % 2 = 0 THEN tokens[j][1].kind = "Number"
          ELSE tokens[j][1].kind \in {"Ident", "Plus", "Star"}

\* The tree of the chain of tokens from..to: an infix call at its last
\* identifier, with the chains on both sides as operands; without an
\* identifier the tree of the arithmetic operators.
RECURSIVE InfixGrouped(_, _, _)
InfixGrouped(tokens, from, to) ==
    IF LastOperator(tokens, from, to, {"Ident"}) = 0 THEN Grouped(tokens, from, to)
    ELSE TermBinOp(InfixGrouped(tokens, from, LastOperator(tokens, from, to, {"Ident"}) - 1),
                   BinOpInfix(<<tokens[LastOperator(tokens, from, to, {"Ident"})][1].inner>>),
                   Grouped(tokens, LastOperator(tokens, from, to, {"Ident"}) + 1, to))

AssignOf(target, n) == StmtAssign(Bytes(<<target>>), Number(n))

\* C22: an identifier after an additive expression starts an infix call
\* with additive expressions as operands, lowest in precedence and grouping
\* to the left: "x = " and a chain of numbers with a, + and * between them
\* parses to the tree that splits the chain at its last a.  An identifier
\* that is followed by '=' ends the expression: "x = 1 a = 2" is two
\* assignments at the top level and in a block, and in "{ x = 1 * a = 2 }"
\* the expression is 1 * a and the parse error has the span of the second
\* '='.
C22_IdentAfterExprIsInfixUnlessAssign ==
    Parsed =>
        /\ (lex_result.ok /\ IsInfixChain(lex_result.val, 3)) =>
               /\ parse_result.ok
               /\ parse_result.val =
                      <<StmtAssign(Bytes(<<"x">>),
                                   InfixGrouped(lex_result.val, 3, Len(lex_result.val)))>>
        /\ lexer.input = Bytes(<<"x", " ", "=", " ", "1", " ", "a", " ", "=", " ", "2">>) =>
               parse_result = Ok(<<AssignOf("x", 1), AssignOf("a", 2)>>)
        /\ lexer.input = Bytes(<<"{", " ", "x", " ", "=", " ", "1", " ", "a", " ", "=", " ", "2",
                                 " ", "}">>) =>
               parse_result = Ok(<<StmtBlock(<<AssignOf("x", 1), AssignOf("a", 2)>>)>>)
        /\ lexer.input = Bytes(<<"{", " ", "x", " ", "=", " ", "1", " ", "*", " ", "a", " ", "=",
                                 " ", "2", " ", "}">>) =>
               /\ ~parse_result.ok
               /\ parse_result.err.kind = "Parse"
               /\ parse_result.err.start = 12 /\ parse_result.err.end = 13
        /\ lexer.input = Bytes(<<"x", " ", "=", " ", "1", " ", "*", " ", "a", " ", "=", " ", "2">>) =>
               /\ ~parse_result.ok
               /\ parse_result.err.kind = "Parse"
               /\ parse_result.err.start = 10 /\ parse_result.err.end = 11

\* "x = 1 a 2 a 1" was parsed: (1 a 2) a 1.
C22_Witness ==
    /\ Parsed
    /\ lexer.input = AssignX \o Bytes(<<"1", " ", "a", " ", "2", " ", "a", " ", "1">>)
    /\ parse_result.ok
    /\ parse_result.val[1].expr.op = BinOpInfix(<<Bytes(<<"a">>)>>)
    /\ parse_result.val[1].expr.lhs.t = "BinOp"
    /\ parse_result.val[1].expr.rhs = Number(1)

\* A source that does not parse and the token (counted from 1) that is the
\* first one the grammar cannot accept, 0 when the tokens are a proper start
\* of a document and the input ends.
Rejected(source, token) == [source |-> Bytes(source), token |-> token]

RejectedSources ==
    {Rejected(<<"i", "m", "p", "o", "r", "t", " ", "1">>, 2),
     Rejected(<<"=", " ", "1">>, 1),
     Rejected(<<"x", " ", "=", " ", "1", " ", "*", " ", "a", " ", "=", " ", "2">>, 6),
     Rejected(<<"x", " ", "=", " ", "f", "u", "n", "c", "t", "i", "o", "n", "(", "a", ",", ")", " ", "{", "}">>, 7),
     Rejected(<<"x", " ", "=", " ", "f", "u", "n", "c", "t", "i", "o", "n", "(", "a", " ", "a", ")", " ", "{", "}">>, 6),
     Rejected(<<"x", " ", "=", " ", "(", "1", " ", "2", ")">>, 5),
     Rejected(<<"x", " ", "=", " ", "(", "1", " ", "2">>, 5),
     Rejected(<<"x", " ", "=", " ", "1", " ", "+">>, 0),
     Rejected(<<"{", " ", "p", "u", "t", " ", "x">>, 0),
     Rejected(<<"{", " ", "x", " ", "=", " ", "1">>, 0)}

\* The error has the span of token k and the message of the parser as it is.
ErrorAtToken(k) ==
    /\ ~parse_result.ok
    /\ parse_result.err.kind = "Parse"
    /\ parse_result.err.start = lex_result.val[k][2].start
    /\ parse_result.err.end = lex_result.val[k][2].end
    /\ Len(parse_result.err.msg) = 1

\* The error has the empty span at the end of the last token and the message
\* says that the input ended.
ErrorAtEndOfInput ==
    /\ ~parse_result.ok
    /\ parse_result.err.kind = "Parse"
    /\ parse_result.err.start = lex_result.val[Len(lex_result.val)][2].end
    /\ parse_result.err.end = parse_result.err.start
    /\ Len(parse_result.err.msg) = 2
    /\ parse_result.err.msg[2] = " Found end of input instead."

\* C23 as stated: when parsing fails, the error has the span of the first
\* token the grammar could not accept; it has the empty span at the end of
\* the last token and the message about the end of input exactly when the
\* input ended where another token was needed.
C23_Original_ErrorSpanIsOffendingToken ==
    Parsed =>
        \A e \in RejectedSources :
            lexer.input = e.source =>
                IF e.token = 0 THEN ErrorAtEndOfInput ELSE ErrorAtToken(e.token)

(***************************************************************************)
(* SpecUnescape: unescape_string_literal on the string literals that the   *)
(* lexer passes on, one action for each state of its state machine.        *)
(***************************************************************************)
MaxPieces == 3

\* What a literal is put together from between its quotes: characters and
\* whole escape sequences.
Pieces ==
    {Bytes(p) : p \in {<<"a">>, <<"1">>, <<"\\", "\\">>, <<"\\", "\"">>, <<"\\", "n">>,
                       <<"\\", "u">>, <<"\\", "u", "6", "1">>,
                       <<"\\", "u", "0", "0", "0", "0", "6", "1">>,
                       <<"\\", "u", "d", "8", "0", "0">>, <<"\\", "z">>}}

RECURSIVE PiecesOf(_)
PiecesOf(n) ==
    IF n = 0 THEN {<<>>}
    ELSE PiecesOf(n - 1) \cup {c \o p : c \in PiecesOf(n - 1), p \in Pieces}

StringLiterals == {Bytes(<<"\"">>) \o c \o Bytes(<<"\"">>) : c \in PiecesOf(MaxPieces)}

\* The characters that the loop iterates: s[1..s.len() - 1].chars().
Chars(s) == SubSeq(s, 2, Len(s) - 1)

InitUnescape ==
    /\ call \in {[fn |-> "unescape_string_literal", s |-> s, next |-> 1,
                  st |-> EscNormal, string |-> <<>>] : s \in StringLiterals}
    /\ ret = Pending
    /\ lexer = Idle /\ lex_result = Idle
    /\ parser = Idle /\ parse_result = Idle /\ statements = Idle
    /\ stmt_interpreter = Idle /\ frames = Idle /\ outcome = Idle /\ aborted = Idle
    /\ canvas_size = Idle /\ painted = Idle /\ printed = Idle

\* One turn of the loop in the state st.
UnescapeTurn(st) ==
    /\ ret = Pending
    /\ call.next <= Len(Chars(call.s))
    /\ call.st.st = st
    /\ \E result \in {UnescapeChar(Chars(call.s)[call.next], call.st, call.string)} :
          IF result.ok
          THEN /\ call' = [call EXCEPT !.next = @ + 1, !.st = result.val.st,
                                       !.string = result.val.string]
               /\ UNCHANGED ret
          ELSE ret' = result /\ UNCHANGED call
    /\ UNCHANGED <<lexVars, parseVars, evalVars>>

UnescapeNormal ==
    /\ call.st.st = "Normal"
    /\ UnescapeTurn("Normal")

UnescapeEscape ==
    /\ call.st.st = "Escape"
    /\ UnescapeTurn("Escape")

UnescapeUnicode ==
    /\ call.st.st = "Unicode"
    /\ UnescapeTurn("Unicode")

\* The characters are used up: the match on the state, and Ok(string).
UnescapeReturn ==
    /\ ret = Pending
    /\ call.next > Len(Chars(call.s))
    /\ ret' = UnescapeEnd(call.st, call.string)
    /\ UNCHANGED <<call, lexVars, parseVars, evalVars>>

NextUnescape == UnescapeNormal \/ UnescapeEscape \/ UnescapeUnicode \/ UnescapeReturn

SpecUnescape == InitUnescape /\ [][NextUnescape]_vars

(***************************************************************************)
(* Claims checked under SpecUnescape.                                      *)
(***************************************************************************)
\* The number of hexadecimal digits from character k on, at most left.
RECURSIVE HexRun(_, _, _)
HexRun(chars, k, left) ==
    IF left = 0 \/ k > Len(chars) THEN 0
    ELSE IF ~is_hexadecimal(chars[k]) THEN 0
    ELSE 1 + HexRun(chars, k + 1, left - 1)

RECURSIVE HexValue(_)
HexValue(digits) ==
    IF digits = <<>> THEN 0
    ELSE HexValue(SubSeq(digits, 1, Len(digits) - 1)) * 16 + to_digit(digits[Len(digits)])

\* The code point of the unicode escape whose digits start at character k.
EscapedCodepoint(chars, k) == HexValue(SubSeq(chars, k, k + HexRun(chars, k, 6) - 1))

\* Every escape sequence from character k on is one of \\ \" \n \u, and
\* every unicode escape has a digit and gives a code point.
RECURSIVE WellEscaped(_, _)
WellEscaped(chars, k) ==
    IF k > Len(chars) THEN TRUE
    ELSE IF chars[k] # Byte("\\") THEN WellEscaped(chars, k + 1)
    ELSE IF chars[k + 1] \in {Byte("\\"), Byte("\""), Byte("n")}
    THEN WellEscaped(chars, k + 2)
    ELSE IF chars[k + 1] = Byte("u")
    THEN /\ HexRun(chars, k + 2, 6) >= 1
         /\ char_from_codepoint(EscapedCodepoint(chars, k + 2)).ok
         /\ WellEscaped(chars, k + 2 + HexRun(chars, k + 2, 6))
    ELSE FALSE

\* The characters and the values of the escape sequences from character k
\* on, in source order.
RECURSIVE Decoded(_, _)
Decoded(chars, k) ==
    IF k > Len(chars) THEN <<>>
    ELSE IF chars[k] # Byte("\\") THEN <<chars[k]>> \o Decoded(chars, k + 1)
    ELSE IF chars[k + 1] = Byte("\\") THEN <<Byte("\\")>> \o Decoded(chars, k + 2)
    ELSE IF chars[k + 1] = Byte("\"") THEN <<Byte("\"")>> \o Decoded(chars, k + 2)
    ELSE IF chars[k + 1] = Byte("n") THEN <<Byte("\n")>> \o Decoded(chars, k + 2)
    ELSE <<EscapedCodepoint(chars, k + 2)>>
             \o Decoded(chars, k + 2 + HexRun(chars, k + 2, 6))

Unescaped == call.fn = "unescape_string_literal" /\ ret # Pending

\* C11 as stated: a literal whose escape sequences are all valid unescapes to
\* its characters and the values of its escape sequences in source order,
\* whatever precedes an escape sequence.
C11_Original_EveryEscapeDecoded ==
    (Unescaped /\ WellEscaped(Chars(call.s), 1)) =>
        ret = Ok(Decoded(Chars(call.s), 1))
(***************************************************************************)
(* SpecReport: parse_or_abort of bin/pris.rs on a source text with a lex   *)
(* or parse error.  call holds the operands and the local variables of     *)
(* report_error, ret what the process printed or the panic that ended it.  *)
(***************************************************************************)
MaxLines == 2

LineTexts == {Bytes(l) : l \in {<<"x", "=", "1">>, <<"\t">>, <<"=", "1">>, <<"x", "=">>, <<"x", " ", "\t", "1">>}}

RECURSIVE Joined(_)
Joined(lines) ==
    IF Len(lines) = 1 THEN lines[1]
    ELSE lines[1] \o <<Byte("\n")>> \o Joined(Tail(lines))

LinesOf(n) == [1..n -> LineTexts]

\* Texts of up to MaxLines lines, with and without a newline at the end.
Texts ==
    UNION {{Joined(lines) : lines \in LinesOf(n)} : n \in 1..MaxLines}
        \cup UNION {{Joined(lines) \o <<Byte("\n")>> : lines \in LinesOf(n)} : n \in 1..MaxLines}

\* lexer::lex(input).and_then(|tokens| parser::parse(&tokens[..]))
LexAndParse(input) == Try(lex(input), LAMBDA tokens : parse(tokens))

IsParseError(result) == ~result.ok /\ result.err.kind = "Parse"

\* parse_or_abort reaches report_error(input, e.start, e.end - e.start).
ReportCall(input, e) ==
    [fn |-> "report_error", input |-> input, location |-> e.start, len |-> e.end - e.start,
     message |-> e.msg, pc |-> "line", line |-> 1, start |-> 0, end |-> 0, i |-> 0]

InitReport ==
    /\ call \in {ReportCall(input, LexAndParse(input).err) :
                    input \in {t \in Texts : IsParseError(LexAndParse(t))}}
    /\ ret = Pending
    /\ lexer = Idle /\ lex_result = Idle
    /\ parser = Idle /\ parse_result = Idle /\ statements = Idle
    /\ stmt_interpreter = Idle /\ frames = Idle /\ outcome = Idle /\ aborted = Idle
    /\ canvas_size = Idle /\ painted = Idle /\ printed = Idle

\* One turn of the first loop of report_error: count the lines before location.
LocateLine ==
    /\ call.pc = "line"
    /\ call' = IF call.i >= Len(call.input) \/ call.i = call.location
               THEN [call EXCEPT !.pc = "end", !.i = call.start]
               ELSE IF call.input[call.i + 1] = Byte("\n")
               THEN [call EXCEPT !.line = @ + 1, !.start = call.i + 1, !.i = @ + 1]
               ELSE [call EXCEPT !.i = @ + 1]
    /\ UNCHANGED <<ret, lexVars, parseVars, evalVars>>

\* One turn of the second loop of report_error: find the newline that ends the line.
LocateEnd ==
    /\ call.pc = "end"
    /\ call' = IF call.i >= Len(call.input) THEN [call EXCEPT !.pc = "print"]
               ELSE IF call.input[call.i + 1] = Byte("\n")
               THEN [call EXCEPT !.end = call.i, !.pc = "print"]
               ELSE [call EXCEPT !.i = @ + 1]
    /\ UNCHANGED <<ret, lexVars, parseVars, evalVars>>

Repeated(byte, n) == [k \in 1..n |-> byte]

\* What report_error and Error::print write for a mark of mark_len bytes.
Report(self, mark_len) ==
    [line |-> self.line,
     line_content |-> Slice(self.input, self.start, self.end),
     mark |-> Repeated(Byte(" "), self.location - self.start) \o <<Byte("^")>>
                  \o Repeated(Byte("~"), IF mark_len > 1 THEN mark_len - 1 ELSE 0),
     message |-> self.message]

\* The rest of report_error, then Error::print and exit(1).  The slice
\* &input[start..end] panics when start > end.  The usize subtraction
\* line_content.len() + start - location overflows when location is past the
\* slice: a build with overflow checks panics, one without wraps around to a
\* number that is larger than len.
PrintOutcomes(self) ==
    IF self.start > self.end
    THEN {Panic("slice index starts past its end")}
    ELSE LET content_len == self.end - self.start
         IN  IF content_len + self.start < self.location
             THEN {Panic("attempt to subtract with overflow"), Ok(Report(self, self.len))}
             ELSE LET rest == content_len + self.start - self.location
                  IN  {Ok(Report(self, IF self.len < rest THEN self.len ELSE rest))}

PrintReport ==
    /\ call.pc = "print"
    /\ ret = Pending
    /\ ret' \in PrintOutcomes(call)
    /\ UNCHANGED <<call, lexVars, parseVars, evalVars>>

NextReport == LocateLine \/ LocateEnd \/ PrintReport

SpecReport == InitReport /\ [][NextReport]_vars

(***************************************************************************)
(* Claims checked under SpecReport.                                        *)
(***************************************************************************)
\* The offsets of the newlines of a text before offset k.
NewlinesBefore(input, k) == {j \in 0..(k - 1) : j < Len(input) /\ input[j + 1] = Byte("\n")}

\* The offset at which the line holding offset k starts, and the offset past
\* its last byte.
LineStart(input, k) ==
    IF NewlinesBefore(input, k) = {} THEN 0
    ELSE 1 + CHOOSE j \in NewlinesBefore(input, k) : \A m \in NewlinesBefore(input, k) : m <= j

LineEnd(input, k) ==
    LET from == LineStart(input, k)
        ends == {j \in from..(Len(input) - 1) : input[j + 1] = Byte("\n")}
    IN  IF ends = {} THEN Len(input)
        ELSE CHOOSE j \in ends : \A m \in ends : j <= m

\* The number of bytes of the range location .. location + len on its line.
MarkLen(input, location, len) ==
    LET rest == LineEnd(input, location) - location
    IN  IF len < rest THEN len ELSE rest

Reported == call.pc = "print" /\ ret # Pending

\* C16 as stated: for every text with a lex or parse error, with or without
\* a newline at its end, the report does not crash and shows the 1-indexed
\* number of the line that holds the start of the error, the text of that
\* line, a caret under the start column followed by tildes up to the end of
\* the range or of the line, and the message.
C16_Original_ReportShowsLine ==
    Reported =>
        /\ ret.ok
        /\ ret.val.line = 1 + Cardinality(NewlinesBefore(call.input, call.location))
        /\ ret.val.line_content = Slice(call.input, LineStart(call.input, call.location),
                                        LineEnd(call.input, call.location))
        /\ ret.val.mark = Repeated(Byte(" "), call.location - LineStart(call.input, call.location))
                             \o <<Byte("^")>>
                             \o Repeated(Byte("~"),
                                    IF MarkLen(call.input, call.location, call.len) > 1
                                    THEN MarkLen(call.input, call.location, call.len) - 1 ELSE 0)
        /\ ret.val.message = call.message

(***************************************************************************)
(* SpecPut: StmtInterpreter::eval_put_at applied up to MaxPuts times to a  *)
(* statement interpreter that starts with an empty frame.  call.self is    *)
(* the interpreter behind &mut self, call.content and call.pos are what    *)
(* the two expressions evaluated to, ret is the result of the call.        *)
(***************************************************************************)
MaxPuts == 2

ContentResults ==
    {Ok(v) : v \in DiagFrames \cup {eval_adj(f, f).val : f \in DiagFrames}
                       \cup {EmptyFrame, Num(R(1), 1), Str("a")}}
        \cup {Err(ErrorOther("Variable does not exist."))}

PosResults ==
    {Ok(v) : v \in DiagCoords \cup {Coord(R(1), R(1), 0), Coord(R(1), R(1), 2), Num(R(1), 1)}}
        \cup {Err(ErrorOther("Variable does not exist."))}

InitPut ==
    /\ call = [fn |-> "eval_put_at", self |-> StmtInterpreterNew, pc |-> "content",
               content |-> Pending, pos |-> Pending, puts |-> 0]
    /\ ret = Pending
    /\ lexer = Idle /\ lex_result = Idle
    /\ parser = Idle /\ parse_result = Idle /\ statements = Idle
    /\ stmt_interpreter = Idle /\ frames = Idle /\ outcome = Idle /\ aborted = Idle
    /\ canvas_size = Idle /\ painted = Idle /\ printed = Idle

\* The position is matched after the frame was given the subframes of content.
PutPosGrowsFirst ==
    /\ call.pc = "pos"
    /\ \E result \in PosResults :
           LET grown == [call.self EXCEPT !.frame =
                            EnsureSubframes(@, Len(call.content.val.frame.subframes))]
           IN  IF ~result.ok
               THEN /\ ret' = result
                    /\ call' = [call EXCEPT !.pos = result, !.pc = "done", !.self = grown]
               ELSE IF ~(result.val.type = "Coord" /\ result.val.dim = 1)
               THEN /\ ret' = Err(ErrorOther("Placement requires a coordinate with length units"))
                    /\ call' = [call EXCEPT !.pos = result, !.pc = "done", !.self = grown]
               ELSE /\ call' = [call EXCEPT !.pos = result, !.pc = "place", !.self = grown]
                    /\ UNCHANGED ret
    /\ UNCHANGED <<lexVars, parseVars, evalVars>>

\* let content = match eval_expr(&put_at.0)? { Val::Frame(f) => f, _ => return Err }
PutContent ==
    /\ call.pc = "content"
    /\ \E result \in ContentResults :
           IF ~result.ok
           THEN /\ ret' = result
                /\ call' = [call EXCEPT !.content = result, !.pc = "done"]
           ELSE IF result.val.type # "Frame"
           THEN /\ ret' = Err(ErrorOther("Cannot place <TODO>. Only frames can be placed."))
                /\ call' = [call EXCEPT !.content = result, !.pc = "done"]
           ELSE /\ call' = [call EXCEPT !.content = result, !.pc = "pos"]
                /\ UNCHANGED ret
    /\ UNCHANGED <<lexVars, parseVars, evalVars>>

\* let pos = match eval_expr(&put_at.1)? { Val::Coord(x, y, 1) => .., _ => return Err }
PutPos ==
    /\ call.pc = "pos"
    /\ \E result \in PosResults :
           IF ~result.ok
           THEN /\ ret' = result
                /\ call' = [call EXCEPT !.pos = result, !.pc = "done"]
           ELSE IF ~(result.val.type = "Coord" /\ result.val.dim = 1)
           THEN /\ ret' = Err(ErrorOther("Placement requires a coordinate with length units"))
                /\ call' = [call EXCEPT !.pos = result, !.pc = "done"]
           ELSE /\ call' = [call EXCEPT !.pos = result, !.pc = "place"]
                /\ UNCHANGED ret
    /\ UNCHANGED <<lexVars, parseVars, evalVars>>

\* The rest of eval_put_at: subframes, elements, bounding box, anchor, Ok(()).
PutPlace ==
    /\ call.pc = "place"
    /\ call' = [call EXCEPT !.pc = "done",
                            !.self.frame = Placed(@, call.self.current_subframe,
                                                  call.content.val.frame,
                                                  Vec2(call.pos.val.x, call.pos.val.y))]
    /\ ret' = Ok(<<>>)
    /\ UNCHANGED <<lexVars, parseVars, evalVars>>

\* The next placement statement of the block is evaluated.
PutAgain ==
    /\ call.pc = "done"
    /\ ret.ok
    /\ call.puts + 1 < MaxPuts
    /\ call' = [call EXCEPT !.pc = "content", !.content = Pending, !.pos = Pending,
                            !.puts = @ + 1]
    /\ ret' = Pending
    /\ UNCHANGED <<lexVars, parseVars, evalVars>>

NextPut == PutContent \/ PutPos \/ PutPlace \/ PutAgain

SpecPut == InitPut /\ [][NextPut]_vars

(***************************************************************************)
(* Claims checked under SpecPut.                                           *)
(***************************************************************************)
\* The box inner lies inside the box outer.
Contains(outer, inner) ==
    /\ RatLe(outer.x, inner.x)
    /\ RatLe(outer.y, inner.y)
    /\ RatLe(RatAdd(inner.x, inner.width), RatAdd(outer.x, outer.width))
    /\ RatLe(RatAdd(inner.y, inner.height), RatAdd(outer.y, outer.height))

\* The elements of subframe i of a frame, none when it has no subframe i.
ElementsOf(frame, i) ==
    IF i <= Len(frame.subframes) THEN frame.subframes[i].elements ELSE <<>>

ShiftedBy(elements, p) ==
    [k \in 1..Len(elements) |->
        PlacedElement(Vec2Add(p, elements[k].position), elements[k].element)]

\* C18: after content c was placed at position p into the frame d under
\* construction, d has as many subframes as the larger of the two counts,
\* subframe i holds the elements it held before followed by the elements of
\* subframe i of c moved by p, the bounding box is the union of the box
\* before and the box of c offset by p (so it contains both), the anchor is
\* p + c.anchor, and the environment is as before.
C18_PlacementEffect ==
    [][(call.pc = "place" /\ call'.pc = "done") =>
       LET d == call.self.frame
           c == call.content.val.frame
           p == Vec2(call.pos.val.x, call.pos.val.y)
           after == call'.self.frame
           box == BoundingBoxOffset(c.bounding_box, p)
       IN  /\ Len(after.subframes) = MaxOf(Len(d.subframes), Len(c.subframes))
           /\ \A i \in 1..Len(after.subframes) :
                  after.subframes[i].elements = ElementsOf(d, i) \o ShiftedBy(ElementsOf(c, i), p)
           /\ after.bounding_box = BoundingBoxUnion(d.bounding_box, box)
           /\ Contains(after.bounding_box, d.bounding_box)
           /\ Contains(after.bounding_box, box)
           /\ after.anchor = Vec2Add(p, c.anchor)
           /\ after.env = d.env
           /\ ret' = Ok(<<>>)
      ]_vars

\* A second frame was placed at (1pt, 1pt) onto a frame that held a line:
\* two elements on the subframe, the second one moved.
C18_Witness ==
    /\ call.pc = "done" /\ ret = Ok(<<>>)
    /\ call.puts = 1
    /\ call.pos.val = Coord(R(1), R(1), 1)
    /\ Len(call.self.frame.subframes) = 1
    /\ Len(call.self.frame.subframes[1].elements) = 2
    /\ call.self.frame.subframes[1].elements[2].position = Vec2(R(1), R(1))
    /\ call.self.frame.anchor # Vec2(R(1), R(1))

\* C19: eval_put_at returns an error when the operand is not a frame and
\* when the position is not a coordinate of dimension 1 (and when one of the
\* two expressions fails); a call that returns an error leaves the frame of
\* the interpreter (subframes, bounding box, anchor, environment) as it was:
\* the frame only changes in the step that returns Ok.
C19_FailedPutLeavesFrame ==
    [][/\ (call.pc = "content" /\ (~call'.content.ok \/ call'.content.val.type # "Frame")) =>
              (call'.pc = "done" /\ ~ret'.ok)
       /\ (call.pc = "pos" /\ (~call'.pos.ok \/ call'.pos.val.type # "Coord"
                                  \/ call'.pos.val.dim # 1)) =>
              (call'.pc = "done" /\ ~ret'.ok)
       /\ (ret = Pending /\ ~(ret' # Pending /\ ret'.ok)) => call'.self = call.self
      ]_vars

\* A line was placed, then a placement at a dimensionless coordinate failed:
\* the frame still holds the line.
C19_Witness ==
    /\ call.pc = "done" /\ ~ret.ok
    /\ call.puts = 1
    /\ call.content.ok /\ call.content.val.type = "Frame"
    /\ call.content.val.frame.subframes # <<>>
    /\ call.pos = Ok(Coord(R(1), R(1), 0))
    /\ Len(call.self.frame.subframes) = 1
    /\ Len(call.self.frame.subframes[1].elements) = 1

=============================================================================
